---- MODULE Spec2Model ----
(***************************************************************************)
(* Model of analyze_document.js (sandboxed link traversal):                *)
(* main() validates its arguments and entry points, then calls             *)
(* analyzeWithLinks() once per entry point with one shared `visited` set;  *)
(* analyzeWithLinks() recurses over the links extractInternalLinks()       *)
(* admits.  The recursion is modelled with an explicit call stack.         *)
(*                                                                         *)
(* Paths are sequences of segments (<<"r","a">> is /r/a).  The file system *)
(* is fixed; the content of a file is a list of link targets and is drawn  *)
(* when the file is first read.                                            *)
(***************************************************************************)
EXTENDS Integers, Sequences, FiniteSets, TLC

-----------------------------------------------------------------------------
(* Bounds of the model *)

MaxDepthBound == 2      \* --max-depth ranges over 1..MaxDepthBound
MaxCountBound == 3      \* --max-count ranges over 1..MaxCountBound
MaxLinks == 2           \* a document holds at most MaxLinks links
MaxTotalLinks == 3      \* the documents read hold at most MaxTotalLinks links
MaxEntries == 2         \* at most MaxEntries entry points per invocation
MaxTotalLines == 802    \* a scored document holds at most MaxTotalLines lines
MaxHeadingDepth == 6    \* headings of at most MaxHeadingDepth #s
MaxUrlLen == 3          \* a raw link target holds at most MaxUrlLen characters
MaxMatches == 2         \* a document counted holds at most MaxMatches links

-----------------------------------------------------------------------------
(* The file system *)

\* rootDir = null
NoRoot == <<"<null>">>

\* regular files
Files == { <<"r", "a">>, <<"r", "b">>, <<"r", "c">>, <<"o", "x">> }

\* directories
Dirs == { <<>>, <<"r">>, <<"o">> }

\* symbolic links, as <<link, canonical target>>
Symlinks ==
  { << <<"lr">>, <<"r">> >>,            \* /lr -> /r : the root under another name
    << <<"r", "d">>, <<"r">> >>,        \* /r/d -> /r : a directory link in the root
    << <<"r", "s">>, <<"o", "x">> >>,   \* /r/s -> /o/x : inside the root, leads out
    << <<"o", "l">>, <<"r", "b">> >> }  \* /o/l -> /r/b : outside the root, leads in

IsLink(p) == \E e \in Symlinks : e[1] = p
LinkTarget(p) == (CHOOSE e \in Symlinks : e[1] = p)[2]

-----------------------------------------------------------------------------
(* path.resolve, path.dirname, path.relative, fs.realpathSync, ... *)

Dirname(p) == IF p = <<>> THEN <<>> ELSE SubSeq(p, 1, Len(p) - 1)

RECURSIVE Normalize(_, _)
Normalize(base, segs) ==
  IF segs = <<>> THEN base
  ELSE LET s == Head(segs) IN
       IF s = ".." THEN Normalize(Dirname(base), Tail(segs))
       ELSE IF s = "." THEN Normalize(base, Tail(segs))
       ELSE Normalize(Append(base, s), Tail(segs))

\* path.resolve(path.dirname(filePath), cleanUrl) for a relative cleanUrl
ResolveLink(filePath, cleanUrl) == Normalize(Dirname(filePath), cleanUrl)

RECURSIVE CommonLen(_, _)
CommonLen(p, q) ==
  IF p = <<>> \/ q = <<>> THEN 0
  ELSE IF Head(p) # Head(q) THEN 0
  ELSE 1 + CommonLen(Tail(p), Tail(q))

\* path.relative(from, to) for two absolute normalized paths
Relative(from, to) ==
  LET k == CommonLen(from, to)
  IN  [i \in 1..(Len(from) - k) |-> ".."] \o SubSeq(to, k + 1, Len(to))

\* relativePath.startsWith(`..${path.sep}`)
StartsWithDotDotSep(rel) == Len(rel) >= 2 /\ rel[1] = ".."

RECURSIVE RealPathFrom(_, _)
RealPathFrom(cur, rest) ==
  IF rest = <<>> THEN cur
  ELSE LET nxt == Append(cur, Head(rest))
       IN  RealPathFrom(IF IsLink(nxt) THEN LinkTarget(nxt) ELSE nxt, Tail(rest))

\* fs.realpathSync(p): every symlink on the way resolved
RealPath(p) == RealPathFrom(<<>>, p)

\* fs.existsSync(p): follows symlinks
ExistsSync(p) == RealPath(p) \in (Files \cup Dirs)

\* fs.lstatSync(p).isSymbolicLink(): the last component is not followed;
\* lstat throws (and the caller ignores it) when the entry does not exist
LstatIsSymbolicLink(p) ==
  /\ p # <<>>
  /\ IsLink(Append(RealPath(Dirname(p)), p[Len(p)]))

\* mutant: only the parent itself is turned away, `../x` is let through
isRealPathWithinRoot_DotDotOnly(realPath, rootRealPath) ==
  Relative(rootRealPath, realPath) # <<"..">>

isRealPathWithinRoot(realPath, rootRealPath) ==
  LET relativePath == Relative(rootRealPath, realPath)
  IN  IF relativePath = <<>> THEN TRUE
      ELSE IF relativePath = <<"..">> THEN FALSE
      ELSE ~StartsWithDotDotSep(relativePath)

resolveRootRealPath(rootDir) == RealPath(rootDir)

-----------------------------------------------------------------------------
(* Link targets and their extraction *)

\* A link `[label](rawUrl)`: a local target (its path segments), an anchor
\* (#...) or a target with a URI scheme
LocalTargets ==
  { <<"a">>, <<"b">>, <<"c">>,          \* documents of the same directory
    <<"m">>,                            \* no such file
    <<"s">>,                            \* a symlink that leads out of the root
    <<"d", "b">>,                       \* /r/b through the directory link
    <<"..", "o", "x">>,                 \* ../o/x : an existing file outside
    <<"..", "o", "l">>,                 \* ../o/l : a symlink outside, leads in
    <<"..", "..", "etc", "passwd">> }   \* does not exist

RawUrls ==
  [kind : {"local"}, target : LocalTargets]
    \cup { [kind |-> "external", target |-> <<"https:", "x">>] }

\* null (also what an empty first token becomes)
NullTarget == <<>>

normalizeMarkdownLinkTarget(rawUrl) ==
  IF rawUrl.kind \in {"anchor", "external"} THEN NullTarget ELSE rawUrl.target

RECURSIVE Uniq(_, _)
Uniq(values, acc) ==
  IF values = <<>> THEN acc
  ELSE Uniq(Tail(values),
            IF \E i \in 1..Len(acc) : acc[i] = Head(values)
            THEN acc ELSE Append(acc, Head(values)))

\* mutant: repetitions are kept
uniqStrings_Keep(values) == values

\* [...new Set(values)]: first occurrences, in order
uniqStrings(values) == Uniq(values, <<>>)

\* the fast path of extractInternalLinks: a lexical comparison with the root
LexicallyOutside(rootDir, resolvedPath) ==
  LET relativePath == Relative(rootDir, resolvedPath)
  IN  relativePath = <<"..">> \/ StartsWithDotDotSep(relativePath)

RECURSIVE ExtractFrom(_, _, _, _, _)
ExtractFrom(filePath, rest, rootDir, noSymlinks, acc) ==
  IF rest = <<>>
  THEN [valid |-> uniqStrings(acc.valid),
        outsideRoot |-> acc.outsideRoot,
        symlinks |-> acc.symlinks]
  ELSE
    LET cleanUrl == normalizeMarkdownLinkTarget(Head(rest))
        resolvedPath == ResolveLink(filePath, cleanUrl)
        entry == [url |-> cleanUrl, resolvedPath |-> resolvedPath]
        acc2 ==
          IF cleanUrl = NullTarget THEN acc
          ELSE IF noSymlinks /\ LstatIsSymbolicLink(resolvedPath)
            THEN [acc EXCEPT !.symlinks = Append(@, entry)]
          ELSE IF rootDir # NoRoot /\ LexicallyOutside(rootDir, resolvedPath)
            THEN [acc EXCEPT !.outsideRoot = Append(@, entry)]
          ELSE [acc EXCEPT !.valid = Append(@, resolvedPath)]
    IN  ExtractFrom(filePath, Tail(rest), rootDir, noSymlinks, acc2)

extractInternalLinks(filePath, content, rootDir, noSymlinks) ==
  ExtractFrom(filePath, content, rootDir, noSymlinks,
              [valid |-> <<>>, outsideRoot |-> <<>>, symlinks |-> <<>>])

-----------------------------------------------------------------------------
(* The text of a link target *)

\* The characters a raw target is made of here: a blank, the angle brackets,
\* the marks normalizeMarkdownLinkTarget looks for, and "a" for a letter
Chars == {" ", "<", ">", "#", "?", ":", "a"}

\* match[2] of /\[([^\]]+)\]\(([^)]+)\)/g: one character or more
RawTargets == UNION { [1..n -> Chars] : n \in 1..MaxUrlLen }

RECURSIVE TrimStart(_)
TrimStart(s) ==
  IF s # <<>> /\ Head(s) = " " THEN TrimStart(Tail(s)) ELSE s

RECURSIVE TrimEnd(_)
TrimEnd(s) ==
  IF s # <<>> /\ s[Len(s)] = " " THEN TrimEnd(SubSeq(s, 1, Len(s) - 1)) ELSE s

\* String.prototype.trim
Trim(s) == TrimEnd(TrimStart(s))

\* String.prototype.startsWith
StartsWith(s, prefix) ==
  Len(s) >= Len(prefix) /\ SubSeq(s, 1, Len(prefix)) = prefix

\* replace(/^<|>$/g, ''): a leading "<" and a trailing ">" are taken off
StripAngleBrackets(s) ==
  LET opened == IF s # <<>> /\ Head(s) = "<" THEN Tail(s) ELSE s
  IN  IF opened # <<>> /\ opened[Len(opened)] = ">"
        THEN SubSeq(opened, 1, Len(opened) - 1)
        ELSE opened

\* hasScheme: /^[a-zA-Z][a-zA-Z0-9+.-]*:/
hasScheme(url) ==
  \E k \in 1..(Len(url) - 1) :
    /\ \A i \in 1..k : url[i] = "a"
    /\ url[k + 1] = ":"

\* split(sep)[0]: what precedes the first sep
BeforeFirst(s, sep) ==
  IF \E i \in 1..Len(s) : s[i] = sep
    THEN SubSeq(s, 1, (CHOOSE i \in 1..Len(s) :
                         s[i] = sep /\ \A j \in 1..(i - 1) : s[j] # sep) - 1)
    ELSE s

\* rawUrl.trim().replace(/^<|>$/g, '')
Trimmed(rawUrl) == StripAngleBrackets(Trim(rawUrl))

\* normalizeMarkdownLinkTarget on the characters of rawUrl: NullTarget for
\* null, else the first token.  A target that begins with http:// or
\* https:// also has a scheme.
NormalizeRawTarget(rawUrl) ==
  LET trimmed == Trimmed(rawUrl)
  IN  IF StartsWith(trimmed, <<"#">>) THEN NullTarget
      ELSE IF hasScheme(trimmed) THEN NullTarget
      ELSE LET withoutAnchor == BeforeFirst(trimmed, "#")
               withoutQuery == BeforeFirst(withoutAnchor, "?")
           IN  BeforeFirst(Trim(withoutQuery), " ")

\* mutant: an anchor is counted and then classified again
CountMatch_NoContinue(counts, url) ==
  IF StartsWith(url, <<"#">>)
    THEN [counts EXCEPT !.totalLinks = @ + 1, !.anchorLinks = @ + 1,
                        !.externalLinks = @ + 1]
  ELSE IF NormalizeRawTarget(url) # NullTarget
    THEN [counts EXCEPT !.totalLinks = @ + 1, !.internalLinks = @ + 1]
  ELSE [counts EXCEPT !.totalLinks = @ + 1, !.externalLinks = @ + 1]

\* analyzeDocument: the body of `for (const match of linkMatches)`
CountMatch(counts, url) ==
  IF StartsWith(url, <<"#">>)
    THEN [counts EXCEPT !.totalLinks = @ + 1, !.anchorLinks = @ + 1]
  ELSE IF NormalizeRawTarget(url) # NullTarget
    THEN [counts EXCEPT !.totalLinks = @ + 1, !.internalLinks = @ + 1]
  ELSE [counts EXCEPT !.totalLinks = @ + 1, !.externalLinks = @ + 1]

RECURSIVE CountMatches(_, _)
\* analyzeDocument: the link counts of a text with these matches
CountMatches(counts, urls) ==
  IF urls = <<>> THEN counts
  ELSE CountMatches(CountMatch(counts, Head(urls)), Tail(urls))

\* analyzeDocument: the link counts of the metrics as initialized
NoLinks ==
  [internalLinks |-> 0, externalLinks |-> 0, anchorLinks |-> 0, totalLinks |-> 0]

-----------------------------------------------------------------------------
(* analyzeDocument and evaluateMetrics *)

\* line counts at and around the limits of evaluateMetrics
LineSamples == {1, 150, 200, 201, 500, 501, 600, 800, 801}

\* section counts at and around the limits of evaluateMetrics
SectionSamples == {0, 2, 14, 20, 21, 30, 31, 60}

\* what analyzeDocument counts in a text: lines, headings and their deepest
\* level, local, external and anchor links, repeated phrases
DocumentShapes ==
  LET shapes(lines, sections, links) ==
        { d \in [totalLines : lines,
                 sectionCount : sections,
                 maxDepth : 0..MaxHeadingDepth,
                 internalLinks : links,
                 externalLinks : links,
                 anchorLinks : 0..1,
                 redundancyIndicators : 0..1] :
            /\ d.sectionCount <= d.totalLines
            /\ (d.maxDepth = 0) <=> (d.sectionCount = 0) }
  IN  shapes(1..MaxTotalLines, {0, 1}, {0})
        \cup shapes(LineSamples, SectionSamples, {0, 1, 3, 5})

\* analyzeDocument: the metrics of a text with these counts
analyzeDocument(d) ==
  [totalLines |-> d.totalLines,
   sectionCount |-> d.sectionCount,
   maxDepth |-> d.maxDepth,
   internalLinks |-> d.internalLinks,
   externalLinks |-> d.externalLinks,
   anchorLinks |-> d.anchorLinks,
   totalLinks |-> d.internalLinks + d.externalLinks + d.anchorLinks,
   avgSectionLength |-> IF d.sectionCount > 0
                          THEN d.totalLines \div d.sectionCount ELSE 0,
   redundancyIndicators |-> d.redundancyIndicators]

\* mutant: the first limit is exclusive
LineCountScore_Exclusive(m) ==
  IF m.totalLines < 200 THEN 10
  ELSE IF m.totalLines <= 500 THEN 7
  ELSE IF m.totalLines <= 800 THEN 4
  ELSE 2

\* evaluateMetrics: scores.lineCount
LineCountScore(m) ==
  IF m.totalLines <= 200 THEN 10
  ELSE IF m.totalLines <= 500 THEN 7
  ELSE IF m.totalLines <= 800 THEN 4
  ELSE 2

\* evaluateMetrics: the feedback line on the length
LineCountFeedback(m) ==
  IF m.totalLines <= 200 THEN "Document length is excellent"
  ELSE IF m.totalLines <= 500 THEN "Document length is acceptable"
  ELSE IF m.totalLines <= 800 THEN "Document is getting long"
  ELSE "Document is too long"

\* Math.max
Max(a, b) == IF a >= b THEN a ELSE b

\* mutant: the section count costs 3 from 21 sections on
SectionCountPenalty_Flat(m) == IF m.sectionCount > 20 THEN 3 ELSE 0

\* evaluateMetrics: what the number of sections takes off structureScore
SectionCountPenalty(m) ==
  IF m.sectionCount > 30 THEN 3
  ELSE IF m.sectionCount > 20 THEN 1
  ELSE 0

\* evaluateMetrics: scores.structure
StructureScore(m) ==
  Max(0, 10 - (IF m.maxDepth > 4 THEN 3 ELSE 0)
            - SectionCountPenalty(m)
            - (IF m.avgSectionLength > 0 /\ m.avgSectionLength < 15
                 THEN 2 ELSE 0))

\* evaluateMetrics: the feedback lines on the structure
StructureFeedback(m) ==
  (IF m.maxDepth > 4 THEN <<"Deep nesting detected">>
   ELSE IF m.maxDepth <= 3 THEN <<"Good heading depth">> ELSE <<>>)
  \o (IF m.sectionCount > 30 THEN <<"Many sections">>
      ELSE IF m.sectionCount > 20 THEN <<"High section count">> ELSE <<>>)
  \o (IF m.avgSectionLength > 0 /\ m.avgSectionLength < 15
        THEN <<"Sections are very short on average">> ELSE <<>>)

\* internalLinks >= 3 && linkRatio >= 0.5, linkRatio being 0 without links
WellLinked(m) ==
  /\ m.internalLinks >= 3
  /\ m.totalLinks > 0
  /\ 2 * m.internalLinks >= m.totalLinks

\* mutant: a long document short of the threshold scores as one without links
DisclosureBase_AllOrNothing(m) ==
  IF m.totalLines <= 200 THEN 10
  ELSE IF m.totalLines <= 500
    THEN (IF WellLinked(m) THEN 10 ELSE IF m.internalLinks > 0 THEN 7 ELSE 6)
  ELSE (IF WellLinked(m) THEN 10 ELSE 3)

\* evaluateMetrics: scores.progressiveDisclosure before the anchor penalty
DisclosureBase(m) ==
  IF m.totalLines <= 200 THEN 10
  ELSE IF m.totalLines <= 500
    THEN (IF WellLinked(m) THEN 10 ELSE IF m.internalLinks > 0 THEN 7 ELSE 6)
  ELSE (IF WellLinked(m) THEN 10 ELSE IF m.internalLinks > 0 THEN 6 ELSE 3)

\* mutant: documents of at most 200 lines are spared the anchor penalty
DisclosureScore_Exempt(m) ==
  IF m.anchorLinks > 0 /\ m.totalLines > 200 THEN Max(0, DisclosureBase(m) - 2)
  ELSE DisclosureBase(m)

\* evaluateMetrics: scores.progressiveDisclosure
DisclosureScore(m) ==
  IF m.anchorLinks > 0 THEN Max(0, DisclosureBase(m) - 2)
  ELSE DisclosureBase(m)

\* evaluateMetrics: the feedback lines on progressive disclosure, anchors
\* and redundancy
DisclosureFeedback(m) ==
  << IF m.totalLines <= 200
       THEN (IF m.internalLinks > 0 THEN "Good use of internal links"
             ELSE "Progressive disclosure is optional")
     ELSE IF WellLinked(m) THEN "Good use of internal links"
     ELSE IF m.internalLinks > 0 THEN "Some internal links present"
     ELSE IF m.totalLines <= 500 THEN "No internal links - acceptable"
     ELSE "No internal links - consider splitting" >>
  \o (IF m.anchorLinks > 0 THEN <<"Anchor links are meaningless for LLMs">>
      ELSE <<>>)
  \o (IF m.redundancyIndicators > 0 THEN <<"Potential redundancy detected">>
      ELSE <<>>)

\* lineCount * 0.4 + structure * 0.3 + progressiveDisclosure * 0.3 is a sum
\* of IEEE 754 doubles, added left to right.  Over the scores evaluateMetrics
\* gives (lineCount in {2, 4, 7, 10}, the others in 0..10) the double differs
\* from the exact sum by less than 10^-14, so Math.round can only differ from
\* rounding the exact sum where that sum ends in .5 and the double lies
\* below it: 2 * 0.4 + 6 * 0.3 + 3 * 0.3 is 3.4999999999999996.
SumBelowHalf(lineCount, structure, progressiveDisclosure) ==
  <<lineCount, structure, progressiveDisclosure>> \in { <<2, 6, 3>> }

\* mutant: the weights are 4, 3 and 3
OverallScore_Unscaled(lineCount, structure, progressiveDisclosure) ==
  4 * lineCount + 3 * structure + 3 * progressiveDisclosure

\* Math.round(lineCount * 0.4 + structure * 0.3 + progressiveDisclosure * 0.3)
OverallScore(lineCount, structure, progressiveDisclosure) ==
  LET tenths == 4 * lineCount + 3 * structure + 3 * progressiveDisclosure
  IN  IF SumBelowHalf(lineCount, structure, progressiveDisclosure)
        THEN tenths \div 10
        ELSE (tenths + 5) \div 10

evaluateMetrics(m) ==
  [scores |-> [lineCount |-> LineCountScore(m),
               structure |-> StructureScore(m),
               progressiveDisclosure |-> DisclosureScore(m),
               overall |-> OverallScore(LineCountScore(m), StructureScore(m),
                                        DisclosureScore(m))],
   feedback |-> <<LineCountFeedback(m)>> \o StructureFeedback(m)
                  \o DisclosureFeedback(m)]

\* the documents of the file system: their lines; every one has two headings
\* of depth 1 and 2
TotalLinesOf(real) ==
  IF real = <<"r", "b">> THEN 600
  ELSE IF real = <<"r", "c">> THEN 801
  ELSE 150

\* what analyzeDocument counts in the document at filePath, its links being
\* `content`
ShapeOf(filePath, content) ==
  LET links == 1..Len(content)
      anchors == { i \in links : content[i].kind = "anchor" }
      internal == { i \in links \ anchors :
                      normalizeMarkdownLinkTarget(content[i]) # NullTarget }
  IN  [totalLines |-> TotalLinesOf(RealPath(filePath)),
       sectionCount |-> 2,
       maxDepth |-> 2,
       internalLinks |-> Cardinality(internal),
       externalLinks |-> Cardinality((links \ anchors) \ internal),
       anchorLinks |-> Cardinality(anchors),
       redundancyIndicators |-> 0]

\* evaluateMetrics(analyzeDocument(normalizedPath)).scores.overall
OverallOf(filePath, content) ==
  LET metricsOf == { analyzeDocument(d) : d \in {ShapeOf(filePath, content)} }
      evaluationOf == { evaluateMetrics(m) : m \in metricsOf }
  IN  (CHOOSE e \in evaluationOf : TRUE).scores.overall

-----------------------------------------------------------------------------
(* Results *)

\* worstFile: null
NullFile == <<"<null>">>

\* averageScore is kept in tenths: 75 is 7.5
EmptyResult ==
  [analyzed |-> <<>>,
   notFound |-> <<>>,
   skipped |-> [maxDepth |-> <<>>, maxCount |-> <<>>,
                outsideRoot |-> <<>>, symlinks |-> <<>>],
   summary |-> [totalAnalyzed |-> 0, averageScore |-> 0,
                worstScore |-> 10, worstFile |-> NullFile]]

SelectNot(seq, S) == SelectSeq(seq, LAMBDA p : p \notin S)

AnalyzedPaths(result) ==
  { result.analyzed[i].fullPath : i \in 1..Len(result.analyzed) }

\* mutant: the merge leaves out the callee's notFound list
Concat_NoNotFound(result, linked) ==
  [result EXCEPT
     !.analyzed = @ \o linked.analyzed,
     !.skipped.maxDepth = @ \o linked.skipped.maxDepth,
     !.skipped.maxCount = @ \o linked.skipped.maxCount,
     !.skipped.outsideRoot = @ \o linked.skipped.outsideRoot,
     !.skipped.symlinks = @ \o linked.skipped.symlinks]

\* the push(...) lines of a merge, in analyzeWithLinks and in main
Concat(result, linked) ==
  [result EXCEPT
     !.analyzed = @ \o linked.analyzed,
     !.notFound = @ \o linked.notFound,
     !.skipped.maxDepth = @ \o linked.skipped.maxDepth,
     !.skipped.maxCount = @ \o linked.skipped.maxCount,
     !.skipped.outsideRoot = @ \o linked.skipped.outsideRoot,
     !.skipped.symlinks = @ \o linked.skipped.symlinks]

\* mutant: the merge assigns the callee's analyzed list after the caller's own
\* entry where the code appends it
MergeLinked_Overwrite(result, linked) ==
  LET r == Concat(result, linked)
      kept == <<Head(result.analyzed)>> \o linked.analyzed
  IN  [r EXCEPT !.analyzed = kept, !.summary.totalAnalyzed = Len(kept)]

\* if (linked.summary.worstScore < summary.worstScore) { ... }
WorstOf(summary, linked) ==
  IF linked.worstScore < summary.worstScore
  THEN [summary EXCEPT !.worstScore = linked.worstScore,
                       !.worstFile = linked.worstFile]
  ELSE summary

\* analyzeWithLinks: merge of a recursive call's result
MergeLinked(result, linked) ==
  LET r == Concat(result, linked)
  IN  [r EXCEPT !.summary = WorstOf([@ EXCEPT !.totalAnalyzed = Len(r.analyzed)],
                                   linked.summary)]

\* mutant: main puts the result of the latest entry point first
MergeEntry_Front(all, linked) ==
  [Concat(linked, all) EXCEPT !.summary = WorstOf(all.summary, linked.summary)]

\* main: merge of an entry point's result
MergeEntry(all, linked) ==
  [Concat(all, linked) EXCEPT !.summary = WorstOf(@, linked.summary)]

RECURSIVE TotalScore(_)
\* analyzed.reduce((sum, item) => sum + item.evaluation.scores.overall, 0)
TotalScore(analyzed) ==
  IF analyzed = <<>> THEN 0
  ELSE Head(analyzed).overall + TotalScore(Tail(analyzed))

\* mutant: the tenths are cut off
RoundedTenths_Floor(totalScore, length) == (10 * totalScore) \div length

\* Math.round(totalScore / length * 10), the tenths of averageScore; the
\* double totalScore / length * 10 rounds as the exact quotient does for
\* every length up to 60 and scores in 0..10
RoundedTenths(totalScore, length) ==
  (20 * totalScore + length) \div (2 * length)

\* the average score of a result with analyzed documents
Averaged(result) ==
  IF Len(result.analyzed) > 0
  THEN [result EXCEPT !.summary.averageScore =
          RoundedTenths(TotalScore(result.analyzed), Len(result.analyzed))]
  ELSE result

\* mutant: a candidate over the count limit is reported as not found
SkipMaxCount_AsNotFound(result, linkedPath) ==
  [result EXCEPT !.notFound = Append(@, linkedPath)]

\* result.skipped.maxCount.push(linkedPath)
SkipMaxCount(result, linkedPath) ==
  [result EXCEPT !.skipped.maxCount = Append(@, linkedPath)]

\* analyzeWithLinks at currentDepth 0: analyzed paths leave the skip lists
DedupAtRoot(result, currentDepth) ==
  IF currentDepth = 0
  THEN [result EXCEPT
          !.skipped.maxDepth = SelectNot(@, AnalyzedPaths(result)),
          !.skipped.maxCount = SelectNot(@, AnalyzedPaths(result))]
  ELSE result

\* mutant: main joins the entry points' lists without the cross-entry filter
Aggregate_NoFilter(all) ==
  [all EXCEPT
     !.summary.totalAnalyzed = Len(all.analyzed),
     !.notFound = uniqStrings(@),
     !.skipped.maxDepth = uniqStrings(@),
     !.skipped.maxCount = uniqStrings(@)]

\* main: aggregate summary and cross-entry-point deduplication
Aggregate(all) ==
  [Averaged(all) EXCEPT
     !.summary.totalAnalyzed = Len(all.analyzed),
     !.notFound = uniqStrings(@),
     !.skipped.maxDepth = SelectNot(uniqStrings(@), AnalyzedPaths(all)),
     !.skipped.maxCount = SelectNot(uniqStrings(@), AnalyzedPaths(all))]

-----------------------------------------------------------------------------
(* State *)

VARIABLES
  args,         \* the parsed command line (main's option variables)
  pc,           \* "start", "links", "nolinks", "done" (JSON emitted, status 0)
                \* or "exit1" (status 1, nothing emitted)
  entryIdx,     \* main's position in filePaths
  visited,      \* sharedVisited
  stack,        \* the active calls of analyzeWithLinks, innermost last
  allResults,   \* main's accumulator, the emitted linkedAnalysis once "done"
  fileContent,  \* <<real path, content>> of the files read so far
  reads,        \* the paths handed to fs.readFileSync so far
  warned,       \* the paths of the [SECURITY] lines written by console.warn
  metrics,      \* the metrics analyzeDocument returned for the document scored
  evaluation,   \* what evaluateMetrics returned for them
  matches,      \* the raw targets of the reference matches of that document
  analyzing     \* scripts/analyze_document.js: the paths being expanded

vars ==
  <<args, pc, entryIdx, visited, stack, allResults, fileContent, reads, warned,
    metrics, evaluation, matches, analyzing>>

\* the paths a caller names as entry points
EntryPaths ==
  { <<"r", "a">>, <<"r", "b">>,   \* documents of the root
    <<"o", "l">>,                 \* /r/b, through a symlink outside the root
    <<"o", "x">>,                 \* a file outside the root
    <<"r", "m">> }                \* no such file

EntryLists == UNION { [1..n -> EntryPaths] : n \in 0..MaxEntries }

RootDirs == { NoRoot, <<"r">>, <<"lr">>, <<"zz">> }

LinkLists == UNION { [1..n -> RawUrls] : n \in 0..MaxLinks }

ArgSets ==
  [rootDir : RootDirs,
   noIncludeLinks : BOOLEAN,
   noSymlinks : BOOLEAN,
   linkMaxDepth : 1..MaxDepthBound,
   linkMaxCount : 1..MaxCountBound,
   filePaths : EntryLists]

\* before analyzeDocument and evaluateMetrics have returned
NoMetrics == [totalLines |-> 0]
NoEvaluation == [feedback |-> <<>>]

Init ==
  /\ args \in ArgSets
  /\ pc = "start"
  /\ entryIdx = 1
  /\ visited = {}
  /\ stack = <<>>
  /\ allResults = EmptyResult
  /\ fileContent = {}
  /\ reads = {}
  /\ warned = <<>>
  /\ metrics = NoMetrics
  /\ evaluation = NoEvaluation
  /\ matches = <<>>
  /\ analyzing = {}

-----------------------------------------------------------------------------
(* main: validation *)

\* mutant: link analysis does not depend on a root being given
includeLinks_WithoutRoot == ~args.noIncludeLinks

includeLinks == (~args.noIncludeLinks) /\ args.rootDir # NoRoot

rootRealPath == resolveRootRealPath(args.rootDir)

\* mutant: main checks the symlink policy only, not the root
EntryRejected_SymlinkOnly(filePath) ==
  args.noSymlinks /\ RealPath(filePath) # filePath

\* one pass of main's sandbox loop over the entry points
EntryRejected(filePath) ==
  \/ ~isRealPathWithinRoot(RealPath(filePath), rootRealPath)
  \/ (args.noSymlinks /\ RealPath(filePath) # filePath)

\* mutant: main validates the first entry point only
UsageError_FirstOnly ==
  IF args.filePaths = <<>> THEN TRUE
  ELSE \/ ~ExistsSync(args.filePaths[1])
       \/ (args.rootDir # NoRoot /\ ~ExistsSync(args.rootDir))
       \/ (includeLinks /\ EntryRejected(args.filePaths[1]))

\* every process.exit(1) of main before the analysis starts
UsageError ==
  \/ args.filePaths = <<>>
  \/ \E i \in 1..Len(args.filePaths) : ~ExistsSync(args.filePaths[i])
  \/ (args.rootDir # NoRoot /\ ~ExistsSync(args.rootDir))
  \/ (includeLinks /\ \E i \in 1..Len(args.filePaths) :
                          EntryRejected(args.filePaths[i]))

MainUsageError ==
  /\ pc = "start"
  /\ UsageError
  /\ pc' = "exit1"
  /\ UNCHANGED <<metrics, evaluation, matches, analyzing>>
  /\ UNCHANGED <<args, entryIdx, visited, stack, allResults, fileContent, reads,
               warned>>

MainStart ==
  /\ pc = "start"
  /\ ~UsageError
  /\ pc' = IF includeLinks THEN "links" ELSE "nolinks"
  /\ UNCHANGED <<metrics, evaluation, matches, analyzing>>
  /\ UNCHANGED <<args, entryIdx, visited, stack, allResults, fileContent, reads,
               warned>>

HasContent(real) == \E e \in fileContent : e[1] = real
ContentOf(real) == (CHOOSE e \in fileContent : e[1] = real)[2]

RECURSIVE LinksIn(_)
LinksIn(S) ==
  IF S = {} THEN 0
  ELSE LET e == CHOOSE x \in S : TRUE IN Len(e[2]) + LinksIn(S \ {e})

\* fs.readFileSync(p): the content of the real file, drawn at its first read
ReadFile(p, content) ==
  /\ IF HasContent(RealPath(p))
     THEN content = ContentOf(RealPath(p))
     ELSE Len(content) + LinksIn(fileContent) <= MaxTotalLinks
  /\ fileContent' = fileContent \cup { <<RealPath(p), content>> }
  /\ reads' = reads \cup {p}

\* main without link analysis: analyzeDocument on each named file; its
\* links are counted, never resolved
NoLinksAnalyze ==
  /\ pc = "nolinks"
  /\ entryIdx <= Len(args.filePaths)
  /\ reads' = reads \cup {args.filePaths[entryIdx]}
  /\ entryIdx' = entryIdx + 1
  /\ UNCHANGED <<metrics, evaluation, matches, analyzing>>
  /\ UNCHANGED <<args, pc, visited, stack, allResults, fileContent, warned>>

NoLinksEmit ==
  /\ pc = "nolinks"
  /\ entryIdx > Len(args.filePaths)
  /\ pc' = "done"
  /\ UNCHANGED <<metrics, evaluation, matches, analyzing>>
  /\ UNCHANGED <<args, entryIdx, visited, stack, allResults, fileContent, reads,
               warned>>

-----------------------------------------------------------------------------
(* analyzeWithLinks *)

Top == stack[Len(stack)]

\* mutant: visited.size > maxCount
CountReached_OffByOne(v, maxCount) == Cardinality(v) > maxCount

\* visited.size >= maxCount
CountReached(v, maxCount) == Cardinality(v) >= maxCount

\* mutant: currentDepth <= maxDepth
DepthBelowMax_Inclusive(currentDepth, maxDepth) == currentDepth <= maxDepth

\* currentDepth < maxDepth
DepthBelowMax(currentDepth, maxDepth) == currentDepth < maxDepth

\* mutant: the loop does not advance
Rest_Stuck(todo) == todo

\* `for (const linkedPath of internalLinks)`: the links after the current one
Rest(todo) == Tail(todo)

\* a call of analyzeWithLinks is due: from main's loop over filePaths, or from
\* the loop over internalLinks once its own count check has passed
HasCall ==
  /\ pc = "links"
  /\ \/ stack = <<>> /\ entryIdx <= Len(args.filePaths)
     \/ /\ stack # <<>>
        /\ Top.todo # <<>>
        /\ ~CountReached(visited, args.linkMaxCount)

CallPath == IF stack = <<>> THEN args.filePaths[entryIdx] ELSE Head(Top.todo)
CallDepth == IF stack = <<>> THEN 0 ELSE Top.currentDepth + 1

\* the callee returned `linked`: the caller merges it and moves on
Deliver(linked) ==
  IF stack = <<>>
  THEN /\ allResults' = MergeEntry(allResults, linked)
       /\ entryIdx' = entryIdx + 1
       /\ stack' = stack
  ELSE /\ stack' = [stack EXCEPT ![Len(stack)] =
                      [@ EXCEPT !.todo = Rest(@),
                                !.result = MergeLinked(@, linked)]]
       /\ UNCHANGED <<allResults, entryIdx>>

\* already visited: an empty result
VisitDuplicate ==
  /\ HasCall
  /\ CallPath \in visited
  /\ Deliver(EmptyResult)
  /\ UNCHANGED <<metrics, evaluation, matches, analyzing>>
  /\ UNCHANGED <<args, pc, visited, fileContent, reads, warned>>

VisitMaxCount ==
  /\ HasCall
  /\ CallPath \notin visited
  /\ CountReached(visited, args.linkMaxCount)
  /\ Deliver(SkipMaxCount(EmptyResult, CallPath))
  /\ UNCHANGED <<metrics, evaluation, matches, analyzing>>
  /\ UNCHANGED <<args, pc, visited, fileContent, reads, warned>>

VisitNotFound ==
  /\ HasCall
  /\ CallPath \notin visited
  /\ ~CountReached(visited, args.linkMaxCount)
  /\ ~ExistsSync(CallPath)
  /\ Deliver([EmptyResult EXCEPT !.notFound = <<CallPath>>])
  /\ UNCHANGED <<metrics, evaluation, matches, analyzing>>
  /\ UNCHANGED <<args, pc, visited, fileContent, reads, warned>>

\* the candidate passed the duplicate, count and existence checks
Checked ==
  /\ HasCall
  /\ CallPath \notin visited
  /\ ~CountReached(visited, args.linkMaxCount)
  /\ ExistsSync(CallPath)

RealPathOutside(p) ==
  /\ args.rootDir # NoRoot
  /\ ~isRealPathWithinRoot(RealPath(p), rootRealPath)

IsSymlinked(p) ==
  /\ args.rootDir # NoRoot
  /\ args.noSymlinks
  /\ RealPath(p) # p

VisitOutsideRoot ==
  /\ Checked
  /\ RealPathOutside(CallPath)
  /\ Deliver([EmptyResult EXCEPT !.skipped.outsideRoot =
                << [url |-> CallPath, resolvedPath |-> CallPath] >>])
  /\ warned' = Append(warned, CallPath)
  /\ UNCHANGED <<metrics, evaluation, matches, analyzing>>
  /\ UNCHANGED <<args, pc, visited, fileContent, reads>>

VisitSymlink ==
  /\ Checked
  /\ ~RealPathOutside(CallPath)
  /\ IsSymlinked(CallPath)
  /\ Deliver([EmptyResult EXCEPT !.skipped.symlinks =
                << [url |-> CallPath, resolvedPath |-> CallPath] >>])
  /\ UNCHANGED <<metrics, evaluation, matches, analyzing>>
  /\ UNCHANGED <<args, pc, visited, fileContent, reads, warned>>

\* mutant: one warning for a document, however many of its links are blocked
SecurityWarnings_Once(outsideRoot) ==
  IF outsideRoot = <<>> THEN <<>> ELSE << outsideRoot[1].resolvedPath >>

\* extractInternalLinks: one console.warn for each link pushed to outsideRoot
SecurityWarnings(outsideRoot) ==
  [i \in 1..Len(outsideRoot) |-> outsideRoot[i].resolvedPath]

\* mutant: visited holds the real path of the document
MarkVisited_Real(v, normalizedPath) == v \cup {RealPath(normalizedPath)}

\* visited.add(normalizedPath)
MarkVisited(v, normalizedPath) == v \cup {normalizedPath}

\* mutant: at the depth limit every followable link is recorded
BeyondDepth_All(valid, v) == valid

\* at the depth limit: the followable links to files not yet visited
BeyondDepth(valid, v) == SelectNot(valid, v)

\* the result of the new call up to its loop over the links, and the links
\* that loop will go through
Opened(normalizedPath, currentDepth, content, v) ==
  LET linkResult == extractInternalLinks(normalizedPath, content,
                                         args.rootDir, args.noSymlinks)
      score == OverallOf(normalizedPath, content)
      own == [EmptyResult EXCEPT
                !.analyzed = << [fullPath |-> normalizedPath,
                                 depth |-> currentDepth,
                                 overall |-> score] >>,
                !.summary = WorstOf([@ EXCEPT !.totalAnalyzed = 1],
                                    [worstScore |-> score,
                                     worstFile |-> normalizedPath]),
                !.skipped.outsideRoot = linkResult.outsideRoot,
                !.skipped.symlinks = linkResult.symlinks]
      frame(todo, result) ==
        [normalizedPath |-> normalizedPath, currentDepth |-> currentDepth,
         todo |-> todo, result |-> result]
  IN  IF DepthBelowMax(currentDepth, args.linkMaxDepth)
        THEN frame(linkResult.valid, own)
      ELSE IF currentDepth = args.linkMaxDepth
        THEN frame(<<>>, [own EXCEPT !.skipped.maxDepth =
                            BeyondDepth(linkResult.valid, v)])
      ELSE frame(<<>>, [own EXCEPT !.skipped.outsideRoot = <<>>,
                                   !.skipped.symlinks = <<>>])

\* admitted: mark, read, analyze, extract the links
VisitAnalyze ==
  /\ Checked
  /\ ~RealPathOutside(CallPath)
  /\ ~IsSymlinked(CallPath)
  /\ visited' = MarkVisited(visited, CallPath)
  /\ \E content \in LinkLists :
       /\ ReadFile(CallPath, content)
       /\ LET frame == Opened(CallPath, CallDepth, content, visited')
          IN  /\ stack' = IF stack = <<>> THEN <<frame>>
                          ELSE Append([stack EXCEPT ![Len(stack)].todo = Rest(@)],
                                      frame)
              /\ warned' = warned \o SecurityWarnings(frame.result.skipped.outsideRoot)
  /\ UNCHANGED <<metrics, evaluation, matches, analyzing>>
  /\ UNCHANGED <<args, pc, entryIdx, allResults>>

\* the loop over internalLinks with the budget used up
LoopSkipMaxCount ==
  /\ pc = "links"
  /\ stack # <<>>
  /\ Top.todo # <<>>
  /\ CountReached(visited, args.linkMaxCount)
  /\ stack' = [stack EXCEPT ![Len(stack)] =
                 [@ EXCEPT !.todo = Rest(@),
                           !.result = SkipMaxCount(@, Head(Top.todo))]]
  /\ UNCHANGED <<metrics, evaluation, matches, analyzing>>
  /\ UNCHANGED <<args, pc, entryIdx, visited, allResults, fileContent, reads,
               warned>>

\* the loop is over: the call returns to its caller
Return ==
  /\ pc = "links"
  /\ stack # <<>>
  /\ Top.todo = <<>>
  /\ LET r == DedupAtRoot(Averaged(Top.result), Top.currentDepth)
         rest == SubSeq(stack, 1, Len(stack) - 1)
     IN  IF rest = <<>>
         THEN /\ allResults' = MergeEntry(allResults, r)
              /\ entryIdx' = entryIdx + 1
              /\ stack' = <<>>
         ELSE /\ stack' = [rest EXCEPT ![Len(rest)].result = MergeLinked(@, r)]
              /\ UNCHANGED <<allResults, entryIdx>>
  /\ UNCHANGED <<metrics, evaluation, matches, analyzing>>
  /\ UNCHANGED <<args, pc, visited, fileContent, reads, warned>>

\* main after the last entry point: summary, deduplication, output
MainAggregate ==
  /\ pc = "links"
  /\ stack = <<>>
  /\ entryIdx > Len(args.filePaths)
  /\ allResults' = Aggregate(allResults)
  /\ pc' = "done"
  /\ UNCHANGED <<metrics, evaluation, matches, analyzing>>
  /\ UNCHANGED <<args, entryIdx, visited, stack, fileContent, reads, warned>>

Next ==
  \/ MainUsageError
  \/ MainStart
  \/ NoLinksAnalyze
  \/ NoLinksEmit
  \/ VisitDuplicate
  \/ VisitMaxCount
  \/ VisitNotFound
  \/ VisitOutsideRoot
  \/ VisitSymlink
  \/ VisitAnalyze
  \/ LoopSkipMaxCount
  \/ Return
  \/ MainAggregate

Spec == Init /\ [][Next]_vars

\* the runs on which termination is checked: the root /r, every limit, no
\* entry point, /r/a alone, or /r/a and then /r/b (the last without the
\* symlink policy)
TermEntryLists ==
  { SubSeq(<< <<"r", "a">>, <<"r", "b">> >>, 1, n) : n \in 0..2 }

TermArgSets ==
  { a \in ArgSets : /\ a.rootDir = <<"r">>
                    /\ a.filePaths \in TermEntryLists
                    /\ (a.noSymlinks => Len(a.filePaths) <= 1) }

TermInit == Init /\ args \in TermArgSets

\* the program is sequential and always takes its next step
FairSpec == TermInit /\ [][Next]_vars /\ WF_vars(Next)

\* mutant: the error of a failed read is swallowed and the traversal goes on
ReadFailurePc_Ignored == "links"

\* main's catch block: console.error and process.exit(1)
ReadFailurePc == "exit1"

\* fs.readFileSync throws on a document that passed every check (unreadable,
\* a directory, removed in between): the document is in `visited` already,
\* the exception unwinds every active call up to main's catch block
VisitReadFails ==
  /\ Checked
  /\ ~RealPathOutside(CallPath)
  /\ ~IsSymlinked(CallPath)
  /\ visited' = MarkVisited(visited, CallPath)
  /\ reads' = reads \cup {CallPath}
  /\ pc' = ReadFailurePc
  /\ UNCHANGED <<metrics, evaluation, matches, analyzing>>
  /\ UNCHANGED <<args, entryIdx, stack, allResults, fileContent, warned>>

NextOrReadFailure == Next \/ VisitReadFails

\* the runs in which a read may fail; in Spec every read succeeds
ReadFailureSpec == Init /\ [][NextOrReadFailure]_vars

TypeOK ==
  /\ pc \in {"start", "links", "nolinks", "done", "exit1"}
  /\ visited \subseteq reads

-----------------------------------------------------------------------------
(* main without link analysis: one document scored *)

\* main without link analysis, one file: analyzeDocument has returned
ScoreInit ==
  /\ args = [rootDir |-> NoRoot, noIncludeLinks |-> FALSE, noSymlinks |-> FALSE,
             linkMaxDepth |-> 1, linkMaxCount |-> 1,
             filePaths |-> << <<"r", "a">> >>]
  /\ pc = "nolinks"
  /\ entryIdx = 1
  /\ visited = {}
  /\ stack = <<>>
  /\ allResults = EmptyResult
  /\ fileContent = {}
  /\ reads = { <<"r", "a">> }
  /\ warned = <<>>
  /\ metrics \in { analyzeDocument(d) : d \in DocumentShapes }
  /\ evaluation = NoEvaluation
  /\ matches = <<>>
  /\ analyzing = {}

\* const evaluation = evaluateMetrics(metrics)
Evaluate ==
  /\ evaluation = NoEvaluation
  /\ evaluation' = evaluateMetrics(metrics)
  /\ UNCHANGED <<args, pc, entryIdx, visited, stack, allResults, fileContent,
                 reads, warned, metrics, matches, analyzing>>

ScoreSpec == ScoreInit /\ [][Evaluate]_vars

\* evaluateMetrics has returned
Evaluated == evaluation # NoEvaluation

-----------------------------------------------------------------------------
(* analyzeDocument: the links of one document counted *)

\* main without link analysis, one file: analyzeDocument is at its loop
\* over the lines; matches holds the reference matches of the text in its
\* order
CountInit ==
  /\ args = [rootDir |-> NoRoot, noIncludeLinks |-> FALSE, noSymlinks |-> FALSE,
             linkMaxDepth |-> 1, linkMaxCount |-> 1,
             filePaths |-> << <<"r", "a">> >>]
  /\ pc = "nolinks"
  /\ entryIdx = 1
  /\ visited = {}
  /\ stack = <<>>
  /\ allResults = EmptyResult
  /\ fileContent = {}
  /\ reads = { <<"r", "a">> }
  /\ warned = <<>>
  /\ metrics = NoMetrics
  /\ evaluation = NoEvaluation
  /\ \E n \in 1..MaxMatches : matches \in [1..n -> RawTargets]
  /\ analyzing = {}

\* analyzeDocument: the links of the text are counted
CountLinks ==
  /\ metrics = NoMetrics
  /\ metrics' = CountMatches(NoLinks, matches)
  /\ UNCHANGED <<args, pc, entryIdx, visited, stack, allResults, fileContent,
                 reads, warned, evaluation, matches, analyzing>>

CountSpec == CountInit /\ [][CountLinks]_vars

\* analyzeDocument has counted the links
Counted == metrics # NoMetrics

-----------------------------------------------------------------------------
(* scripts/analyze_document.js: analyzeWithLinks with visited and analyzing *)

\* the resolved paths the links of a document of /r lead to
ScriptTargets == { <<"r", "a">>, <<"r", "b">>, <<"r", "c">>, <<"r", "m">> }

\* the links of a text, in its order, as path.resolve gives them
ScriptLinkLists == UNION { [1..n -> ScriptTargets] : n \in 0..MaxLinks }

\* const result = {...} of this analyzeWithLinks; the scores of the summary
\* are those of evaluateMetrics and are left to it
ScriptEmptyResult ==
  [analyzed |-> <<>>,
   notFound |-> <<>>,
   skipped |-> [circular |-> <<>>, maxDepth |-> <<>>, maxCount |-> <<>>],
   summary |-> [totalAnalyzed |-> 0]]

\* a call of analyzeWithLinks that has not run its checks yet
ScriptCall(filePath, depth) ==
  [normalizedPath |-> filePath, currentDepth |-> depth, at |-> "checks",
   links |-> <<>>, result |-> ScriptEmptyResult]

\* "Merge results" in the loop over internalLinks
ScriptMerge(result, linked) ==
  LET analyzed == result.analyzed \o linked.analyzed
  IN  [analyzed |-> analyzed,
       notFound |-> result.notFound \o linked.notFound,
       skipped |->
         [circular |-> result.skipped.circular \o linked.skipped.circular,
          maxDepth |-> result.skipped.maxDepth \o linked.skipped.maxDepth,
          maxCount |-> result.skipped.maxCount \o linked.skipped.maxCount],
       summary |-> [totalAnalyzed |-> Len(analyzed)]]

\* main: --include-links given, the file exists.  The budget goes one
\* beyond the number of documents, so that it can outlast all of them.
ScriptInit ==
  /\ args \in [includeLinks : {TRUE},
               linkMaxDepth : 1..MaxDepthBound,
               linkMaxCount : 1..(MaxCountBound + 1),
               filePath : { <<"r", "a">>, <<"r", "b">> }]
  /\ pc = "script"
  /\ entryIdx = 1
  /\ visited = {}
  /\ analyzing = {}
  /\ stack = <<>>
  /\ allResults = ScriptEmptyResult
  /\ fileContent = {}
  /\ reads = {}
  /\ warned = <<>>
  /\ metrics = NoMetrics
  /\ evaluation = NoEvaluation
  /\ matches = <<>>

\* main: const linkedAnalysis = analyzeWithLinks(filePath, {...})
ScriptMain ==
  /\ pc = "script"
  /\ stack' = << ScriptCall(args.filePath, 0) >>
  /\ pc' = "script-links"
  /\ UNCHANGED <<args, entryIdx, visited, analyzing, allResults, fileContent,
                 reads, warned, metrics, evaluation, matches>>

ScriptAt(at) == pc = "script-links" /\ stack # <<>> /\ Top.at = at

ScriptSetTop(frame) == stack' = [stack EXCEPT ![Len(stack)] = frame]

\* if (visited.has(normalizedPath)) and if (analyzing.has(normalizedPath))
ScriptSeen(p) == p \in visited \/ p \in analyzing

\* the checks that return before the file is opened, in the order of the
\* code: visited or analyzing, then visited.size >= maxCount, then
\* fs.existsSync.  The loop below tests the count before every call and
\* main passes a maxCount above 0, so the count test of the call itself finds
\* the budget left.
ScriptSkipped ==
  /\ ScriptAt("checks")
  /\ \/ ScriptSeen(Top.normalizedPath)
     \/ Cardinality(visited) >= args.linkMaxCount
     \/ ~ExistsSync(Top.normalizedPath)
  /\ ScriptSetTop(
       IF ScriptSeen(Top.normalizedPath)
         THEN [Top EXCEPT !.at = "return",
                          !.result.skipped.circular =
                             Append(@, Top.normalizedPath)]
       ELSE IF Cardinality(visited) >= args.linkMaxCount
         THEN [Top EXCEPT !.at = "return",
                          !.result.skipped.maxCount =
                             Append(@, Top.normalizedPath)]
       ELSE [Top EXCEPT !.at = "return",
                        !.result.notFound = Append(@, Top.normalizedPath)])
  /\ UNCHANGED <<args, pc, entryIdx, visited, analyzing, allResults,
                 fileContent, reads, warned, metrics, evaluation, matches>>

\* visited.add, analyzing.add, the file read and recorded; below the
\* maximum depth its links are looped over, at the maximum depth those not
\* visited are recorded
ScriptOpen ==
  /\ ScriptAt("checks")
  /\ ~ScriptSeen(Top.normalizedPath)
  /\ Cardinality(visited) < args.linkMaxCount
  /\ ExistsSync(Top.normalizedPath)
  /\ visited' = visited \cup {Top.normalizedPath}
  /\ analyzing' = analyzing \cup {Top.normalizedPath}
  /\ \E content \in ScriptLinkLists :
       LET internalLinks == Uniq(content, <<>>)
           fileResult == [fullPath |-> Top.normalizedPath,
                          depth |-> Top.currentDepth]
           recorded == [Top.result EXCEPT !.analyzed = Append(@, fileResult),
                                          !.summary.totalAnalyzed = @ + 1]
       IN  /\ fileContent' = fileContent \cup { <<Top.normalizedPath, content>> }
           /\ reads' = reads \cup {Top.normalizedPath}
           /\ IF Top.currentDepth < args.linkMaxDepth
                THEN ScriptSetTop([Top EXCEPT !.at = "loop",
                                              !.links = internalLinks,
                                              !.result = recorded])
                ELSE ScriptSetTop(
                       [Top EXCEPT
                          !.at = "loop",
                          !.result =
                             [recorded EXCEPT !.skipped.maxDepth =
                                SelectNot(internalLinks, visited')]])
  /\ UNCHANGED <<args, pc, entryIdx, allResults, warned, metrics, evaluation,
                 matches>>

\* in the loop: if (visited.size >= maxCount) { ...; continue; }
ScriptLoopMaxCount ==
  /\ ScriptAt("loop")
  /\ Top.links # <<>>
  /\ Cardinality(visited) >= args.linkMaxCount
  /\ ScriptSetTop([Top EXCEPT !.links = Tail(@),
                              !.result.skipped.maxCount =
                                 Append(@, Head(Top.links))])
  /\ UNCHANGED <<args, pc, entryIdx, visited, analyzing, allResults,
                 fileContent, reads, warned, metrics, evaluation, matches>>

\* in the loop: analyzeWithLinks(linkedPath, {..., currentDepth + 1})
ScriptFollow ==
  /\ ScriptAt("loop")
  /\ Top.links # <<>>
  /\ Cardinality(visited) < args.linkMaxCount
  /\ stack' = Append([stack EXCEPT ![Len(stack)].links = Tail(@)],
                     ScriptCall(Head(Top.links), Top.currentDepth + 1))
  /\ UNCHANGED <<args, pc, entryIdx, visited, analyzing, allResults,
                 fileContent, reads, warned, metrics, evaluation, matches>>

\* finally { analyzing.delete(normalizedPath) }
ScriptFinish ==
  /\ ScriptAt("loop")
  /\ Top.links = <<>>
  /\ analyzing' = analyzing \ {Top.normalizedPath}
  /\ ScriptSetTop([Top EXCEPT !.at = "return"])
  /\ UNCHANGED <<args, pc, entryIdx, visited, allResults, fileContent, reads,
                 warned, metrics, evaluation, matches>>

\* return result: to the loop of the caller, which merges it, or to main
ScriptReturn ==
  /\ ScriptAt("return")
  /\ IF Len(stack) = 1
       THEN /\ allResults' = Top.result
            /\ stack' = <<>>
            /\ pc' = "script-done"
       ELSE /\ stack' = [SubSeq(stack, 1, Len(stack) - 1)
                           EXCEPT ![Len(stack) - 1].result =
                                     ScriptMerge(@, Top.result)]
            /\ UNCHANGED <<allResults, pc>>
  /\ UNCHANGED <<args, entryIdx, visited, analyzing, fileContent, reads,
                 warned, metrics, evaluation, matches>>

ScriptNext ==
  \/ ScriptMain
  \/ ScriptSkipped
  \/ ScriptOpen
  \/ ScriptLoopMaxCount
  \/ ScriptFollow
  \/ ScriptFinish
  \/ ScriptReturn

ScriptSpec == ScriptInit /\ [][ScriptNext]_vars

-----------------------------------------------------------------------------
(* Vocabulary of the properties *)

\* p is root or lies below it (both canonical)
Descendant(root, p) ==
  Len(p) >= Len(root) /\ SubSeq(p, 1, Len(root)) = root

Range(seq) == { seq[i] : i \in 1..Len(seq) }

\* the run ended with status 0 and emitted a linkedAnalysis
Emitted == pc = "done" /\ includeLinks

CanonicalRoot == RealPath(args.rootDir)

RECURSIVE AnalyzedInFrames(_)
AnalyzedInFrames(k) ==
  IF k = 0 THEN <<>>
  ELSE AnalyzedInFrames(k - 1) \o stack[k].result.analyzed

\* every record analyzed so far, merged or still held by an active call
AnalyzedSoFar == allResults.analyzed \o AnalyzedInFrames(Len(stack))

-----------------------------------------------------------------------------
(* C1 *)

\* C1: with a root configured, every entry of the final `analyzed` list (and
\* every record analyzed on the way) has a canonical real path equal to or
\* below the root's canonical real path.
C1_Containment ==
  args.rootDir # NoRoot =>
    \A e \in Range(AnalyzedSoFar) :
      Descendant(CanonicalRoot, RealPath(e.fullPath))

\* a run that analyzed a document reached through a symlink and turned away
\* a candidate whose real path leaves the root
C1_Witness ==
  /\ Emitted
  /\ \E e \in Range(allResults.analyzed) :
       e.depth >= 1 /\ RealPath(e.fullPath) # e.fullPath
  /\ \E o \in Range(allResults.skipped.outsideRoot) :
       ExistsSync(o.resolvedPath) /\ o.url = o.resolvedPath

-----------------------------------------------------------------------------
(* C2 *)

\* C2: every candidate recorded in `skipped.outsideRoot` has a canonical real
\* path that is neither the root's canonical real path nor below it.
C2_OutsideRootSound ==
  Emitted =>
    \A o \in Range(allResults.skipped.outsideRoot) :
      ~Descendant(CanonicalRoot, RealPath(o.resolvedPath))

-----------------------------------------------------------------------------
(* C3 *)

EntryOutside(i) ==
  ~Descendant(CanonicalRoot, RealPath(args.filePaths[i]))

SomeEntryOutside == \E i \in 1..Len(args.filePaths) : EntryOutside(i)

\* nothing was read from an entry point outside the root, and the run has not
\* gone past main's validation other than by exiting with status 1
EntrySandboxed ==
  /\ pc \in {"start", "exit1"}
  /\ \A i \in 1..Len(args.filePaths) :
       EntryOutside(i) => args.filePaths[i] \notin reads

\* C3 as stated: whenever a root is configured, whatever the other options,
\* an entry point whose canonical real path lies outside the root is never
\* read or analyzed and the process ends with non-zero status.
C3_AnyOptions ==
  (args.rootDir # NoRoot /\ SomeEntryOutside) => EntrySandboxed

\* C3 amended: the same, when link analysis is not disabled
\* (--no-include-links absent).
C3_EntrySandbox ==
  (args.rootDir # NoRoot /\ ~args.noIncludeLinks /\ SomeEntryOutside)
    => EntrySandboxed

\* the sandbox check of main is what ended the run: the root and every entry
\* point exist, one entry point is outside
C3_Witness ==
  /\ pc = "exit1"
  /\ includeLinks
  /\ ExistsSync(args.rootDir)
  /\ args.filePaths # <<>>
  /\ \A i \in 1..Len(args.filePaths) : ExistsSync(args.filePaths[i])
  /\ SomeEntryOutside
  /\ ~args.noSymlinks

-----------------------------------------------------------------------------
(* C4 *)

\* C4: each document, identified by its canonical path, appears in the final
\* `analyzed` list exactly once, and summary.totalAnalyzed is the number of
\* distinct canonical paths analyzed.
C4_DedupCanonical ==
  Emitted =>
    /\ \A i, j \in 1..Len(allResults.analyzed) :
         i # j => RealPath(allResults.analyzed[i].fullPath)
                    # RealPath(allResults.analyzed[j].fullPath)
    /\ allResults.summary.totalAnalyzed =
         Cardinality({ RealPath(e.fullPath) : e \in Range(allResults.analyzed) })

-----------------------------------------------------------------------------
(* C5 *)

\* C5: the number of analyzed documents never exceeds --max-count, counted
\* over all entry points of the invocation together.
C5_CountBound ==
  /\ Len(AnalyzedSoFar) <= args.linkMaxCount
  /\ Emitted => allResults.summary.totalAnalyzed <= args.linkMaxCount

\* two entry points were analyzed, the budget was used up exactly and a
\* further candidate was turned away for it
C5_Witness ==
  /\ Emitted
  /\ Len(args.filePaths) = 2
  /\ Cardinality({ e \in Range(allResults.analyzed) : e.depth = 0 }) = 2
  /\ Len(allResults.analyzed) = args.linkMaxCount
  /\ allResults.skipped.maxCount # <<>>

-----------------------------------------------------------------------------
(* C6 *)

\* C6: no analyzed record has a depth above --max-depth, and a call follows
\* links (has links left to follow or a callee) only at a depth strictly
\* below --max-depth.
C6_DepthBound ==
  /\ \A e \in Range(AnalyzedSoFar) : e.depth <= args.linkMaxDepth
  /\ \A k \in 1..Len(stack) :
       (stack[k].todo # <<>> \/ k < Len(stack))
         => stack[k].currentDepth < args.linkMaxDepth

\* a document was analyzed at the maximum depth and its link was not followed
C6_Witness ==
  /\ Emitted
  /\ \E e \in Range(allResults.analyzed) : e.depth = args.linkMaxDepth
  /\ allResults.skipped.maxDepth # <<>>

-----------------------------------------------------------------------------
(* C7 *)

\* the local targets of the links in the text of the analyzed document p
LinkTargetsOf(p) ==
  { normalizeMarkdownLinkTarget(raw) :
      raw \in Range(ContentOf(RealPath(p))) } \ {NullTarget}

\* the resolved paths the text of the analyzed document p links to
LinkedFrom(p) == { ResolveLink(p, u) : u \in LinkTargetsOf(p) }

\* the documents the count limit still admits
Budget == args.linkMaxCount - Cardinality(visited)

RECURSIVE PendingLinks(_)
\* the links the calls on the stack have still to go through, and one return
\* for each call
PendingLinks(k) ==
  IF k = 0 THEN 0 ELSE Len(stack[k].todo) + 1 + PendingLinks(k - 1)

\* the steps the run can still take: each admitted document costs one unit of
\* the budget and brings at most MaxLinks links and one return
Rank ==
  CASE pc = "start" -> args.linkMaxCount * (MaxLinks + 2) + Len(args.filePaths) + 2
    [] pc \in {"links", "nolinks"} ->
         Budget * (MaxLinks + 2) + PendingLinks(Len(stack))
           + (Len(args.filePaths) + 1 - entryIdx) + 1
    [] OTHER -> 0

\* C7: every run terminates, whatever cycles the documents form: a command
\* line that main rejects ends with exit status 1, every other run reaches
\* its final summary, and every step uses up some of the work that the count
\* limit and the finite documents leave.
C7_Terminates ==
  /\ <>(IF UsageError THEN pc = "exit1" ELSE pc = "done")
  /\ [](Rank >= 0)
  /\ [][Rank' < Rank]_vars

\* a finished run over two documents that link to each other
C7_Witness ==
  /\ Emitted
  /\ \E p, q \in AnalyzedPaths(allResults) :
       p # q /\ q \in LinkedFrom(p) /\ p \in LinkedFrom(q)

-----------------------------------------------------------------------------
(* C8 *)

\* the document p was admitted no later than the document q
AdmittedBefore(p, q) ==
  \E i, j \in 1..Len(allResults.analyzed) :
    /\ i <= j
    /\ allResults.analyzed[i].fullPath = p
    /\ allResults.analyzed[j].fullPath = q

\* the paths the final result reports as not found or skipped
Reported ==
  Range(allResults.notFound)
    \cup Range(allResults.skipped.maxDepth)
    \cup Range(allResults.skipped.maxCount)
    \cup { o.resolvedPath : o \in Range(allResults.skipped.outsideRoot) }
    \cup { o.resolvedPath : o \in Range(allResults.skipped.symlinks) }

\* C8: a document is in `visited` while its links are followed and no
\* document is entered twice; a link of an analyzed document that leads back
\* to a document admitted earlier (or to itself) is dropped silently, that
\* is, its target is in neither notFound nor a skip list of the final result;
\* for A -> B -> A with maximum depth 2 (and room for two documents)
\* `analyzed` is exactly {A, B}.
C8_CycleSilent ==
  /\ \A k \in 1..Len(stack) : stack[k].normalizedPath \in visited
  /\ \A k, l \in 1..Len(stack) :
       stack[k].normalizedPath = stack[l].normalizedPath => k = l
  /\ Emitted =>
       /\ Cardinality(AnalyzedPaths(allResults)) = Len(allResults.analyzed)
       /\ \A q \in AnalyzedPaths(allResults) :
            \A p \in LinkedFrom(q) :
              AdmittedBefore(p, q) => p \notin Reported
  /\ ( /\ Emitted
       /\ args.linkMaxDepth = 2
       /\ args.linkMaxCount >= 2
       /\ args.filePaths = << <<"r", "a">> >>
       /\ LinkTargetsOf(<<"r", "a">>) = { <<"b">> }
       /\ HasContent(<<"r", "b">>)
       /\ LinkTargetsOf(<<"r", "b">>) = { <<"a">> } )
     => AnalyzedPaths(allResults) = { <<"r", "a">>, <<"r", "b">> }

-----------------------------------------------------------------------------
(* C9 *)

\* the target leaves rootDir through `..` segments
Escapes(p, u) ==
  /\ ".." \in Range(u)
  /\ ~Descendant(args.rootDir, ResolveLink(p, u))

\* C9: a local reference of an analyzed document whose resolved path leaves
\* the root through `..` is recorded in skipped.outsideRoot and is in neither
\* notFound nor analyzed, whether or not the target exists.
C9_EscapingLink ==
  Emitted =>
    \A p \in AnalyzedPaths(allResults) :
      \A u \in LinkTargetsOf(p) :
        Escapes(p, u) =>
          /\ [url |-> u, resolvedPath |-> ResolveLink(p, u)]
               \in Range(allResults.skipped.outsideRoot)
          /\ ResolveLink(p, u) \notin Range(allResults.notFound)
          /\ ResolveLink(p, u) \notin AnalyzedPaths(allResults)

-----------------------------------------------------------------------------
(* C10 *)

\* q is a document inside the root, other than the document p
FurtherDocumentInRoot(p, q) ==
  /\ RealPath(q) \in Files
  /\ Descendant(CanonicalRoot, RealPath(q))
  /\ RealPath(q) # RealPath(p)

\* C10: with --max-count 1 and one entry point, `analyzed` holds exactly the
\* entry point and every further document inside the root that the entry
\* point links to is in skipped.maxCount.
C10_BudgetExhaustion ==
  (Emitted /\ args.linkMaxCount = 1 /\ Len(args.filePaths) = 1) =>
    LET entry == args.filePaths[1]
    IN  /\ Len(allResults.analyzed) = 1
        /\ allResults.analyzed[1].fullPath = entry
        /\ \A q \in LinkedFrom(entry) :
             FurtherDocumentInRoot(entry, q)
               => q \in Range(allResults.skipped.maxCount)

-----------------------------------------------------------------------------
(* C11 *)

\* the document q, analyzed at the depth limit, links to p, which was
\* admitted only later: the link was recorded in skipped.maxDepth
DeferredThenAnalyzed(q, p) ==
  /\ p # q
  /\ p \in LinkedFrom(q)
  /\ AdmittedBefore(q, p)
  /\ ~AdmittedBefore(p, q)
  /\ \E e \in Range(allResults.analyzed) :
       e.fullPath = q /\ e.depth = args.linkMaxDepth

\* C11: in the emitted result no path is both in `analyzed` and in
\* skipped.maxDepth, and none is both in `analyzed` and in skipped.maxCount.
C11_AnalyzedWins ==
  Emitted =>
    /\ AnalyzedPaths(allResults) \cap Range(allResults.skipped.maxDepth) = {}
    /\ AnalyzedPaths(allResults) \cap Range(allResults.skipped.maxCount) = {}

\* a finished run in which a path deferred at the depth limit was analyzed
\* afterwards, as a later entry point
C11_Witness ==
  /\ Emitted
  /\ args.rootDir = <<"r">>
  /\ \E q, p \in AnalyzedPaths(allResults) :
       /\ DeferredThenAnalyzed(q, p)
       /\ Descendant(<<"r">>, p)
       /\ ~(args.noSymlinks /\ LstatIsSymbolicLink(p))

-----------------------------------------------------------------------------
(* C12 *)

\* the permutations of 1..n
Perms(n) ==
  { f \in [1..n -> 1..n] : \A i, j \in 1..n : f[i] = f[j] => i = j }

Permute(seq, f) == [i \in 1..Len(seq) |-> seq[f[i]]]

\* the files read so far whose text holds two links or more
Reordered == { e[1] : e \in { x \in fileContent : Len(x[2]) >= 2 } }

\* an order: one permutation of the entry points and one of the links of
\* each document with two links or more
Orders ==
  [entries : Perms(Len(args.filePaths)),
   links : { f \in [Reordered -> UNION { Perms(n) : n \in 2..MaxLinks }] :
               \A d \in Reordered : f[d] \in Perms(Len(ContentOf(d))) }]

\* the text of the document at p with its links in the order ord
ContentIn(ord, p) ==
  LET real == RealPath(p)
  IN  IF ~HasContent(real) THEN <<>>
      ELSE IF real \in Reordered
        THEN Permute(ContentOf(real), ord.links[real])
      ELSE ContentOf(real)

RECURSIVE analyzeWithLinks(_, _, _, _)
RECURSIVE FollowLinks(_, _, _, _, _, _)

\* the loop over internalLinks: [visited, result, known] once it is over
FollowLinks(todo, currentDepth, ord, v, result, known) ==
  IF todo = <<>>
    THEN [visited |-> v, result |-> result, known |-> known]
  ELSE IF CountReached(v, args.linkMaxCount)
    THEN FollowLinks(Rest(todo), currentDepth, ord, v,
                     SkipMaxCount(result, Head(todo)),
                     known)
  ELSE LET r == analyzeWithLinks(Head(todo), currentDepth + 1, ord, v)
       IN  FollowLinks(Rest(todo), currentDepth, ord, r.visited,
                       MergeLinked(result, r.result), known /\ r.known)

\* one call of analyzeWithLinks with the links in the order ord: the set
\* `visited` after it, its result, and whether every text it read is known
analyzeWithLinks(filePath, currentDepth, ord, v) ==
  LET early(result) == [visited |-> v, result |-> result, known |-> TRUE]
  IN  IF filePath \in v THEN early(EmptyResult)
      ELSE IF CountReached(v, args.linkMaxCount)
        THEN early(SkipMaxCount(EmptyResult, filePath))
      ELSE IF ~ExistsSync(filePath)
        THEN early([EmptyResult EXCEPT !.notFound = <<filePath>>])
      ELSE IF RealPathOutside(filePath)
        THEN early([EmptyResult EXCEPT !.skipped.outsideRoot =
                      << [url |-> filePath, resolvedPath |-> filePath] >>])
      ELSE IF IsSymlinked(filePath)
        THEN early([EmptyResult EXCEPT !.skipped.symlinks =
                      << [url |-> filePath, resolvedPath |-> filePath] >>])
      ELSE LET marked == MarkVisited(v, filePath)
               frame == Opened(filePath, currentDepth,
                               ContentIn(ord, filePath), marked)
               done == FollowLinks(frame.todo, currentDepth, ord, marked,
                                   frame.result,
                                   HasContent(RealPath(filePath)))
           IN  [done EXCEPT !.result = DedupAtRoot(Averaged(@), currentDepth)]

RECURSIVE MainLoop(_, _, _, _, _)
\* main's loop over filePaths and its aggregation, in the order ord
MainLoop(entries, ord, v, all, known) ==
  IF entries = <<>>
    THEN [result |-> Aggregate(all), known |-> known]
  ELSE LET r == analyzeWithLinks(Head(entries), 0, ord, v)
       IN  MainLoop(Tail(entries), ord, r.visited, MergeEntry(all, r.result),
                    known /\ r.known)

\* the run over the same documents, root and limits in the order ord
RunIn(ord) ==
  MainLoop(Permute(args.filePaths, ord.entries), ord, {}, EmptyResult, TRUE)

\* the identity order
SameOrder ==
  [entries |-> [i \in 1..Len(args.filePaths) |-> i],
   links |-> [d \in Reordered |-> [i \in 1..Len(ContentOf(d)) |-> i]]]

\* the analyzed documents and the candidates under each skipped reason, as sets
Partition(result) ==
  [analyzed |-> AnalyzedPaths(result),
   maxDepth |-> Range(result.skipped.maxDepth),
   maxCount |-> Range(result.skipped.maxCount),
   outsideRoot |-> Range(result.skipped.outsideRoot),
   symlinks |-> Range(result.skipped.symlinks)]

\* no candidate is left under a limit
NoLimitHit(result) ==
  result.skipped.maxDepth = <<>> /\ result.skipped.maxCount = <<>>

\* the run in the identity order is the run made
RunMatches == Emitted => RunIn(SameOrder).result = allResults

\* C12 (as stated): for every order of the entry points and of the links of
\* each document, the run over the same documents, root and limits has the
\* same set of analyzed documents and the same set under each skipped reason.
C12_OrderIndependent ==
  Emitted =>
    \A ord \in Orders :
      LET other == RunIn(ord)
      IN  other.known => Partition(other.result) = Partition(allResults)

\* C12 (amended): the same, for the orders in which, as in the run made, no
\* candidate is left in skipped.maxDepth or skipped.maxCount.
C12_OrderIndependentUnlimited ==
  (Emitted /\ NoLimitHit(allResults)) =>
    \A ord \in Orders :
      LET other == RunIn(ord)
      IN  NoLimitHit(other.result) =>
            /\ other.known
            /\ Partition(other.result) = Partition(allResults)

\* a finished run over three documents and more, no limit hit, with another
\* order of its entry points or links that hits no limit either
C12_Witness ==
  /\ Emitted
  /\ NoLimitHit(allResults)
  /\ Len(allResults.analyzed) >= 3
  /\ \E ord \in Orders :
       /\ ord # SameOrder
       /\ NoLimitHit(RunIn(ord).result)
       /\ RunIn(ord).result # allResults

-----------------------------------------------------------------------------
(* C13 *)

\* the command line names no file, a root that does not exist, or a file that
\* does not exist
BadArguments ==
  \/ args.filePaths = <<>>
  \/ (args.rootDir # NoRoot /\ ~ExistsSync(args.rootDir))
  \/ \E i \in 1..Len(args.filePaths) : ~ExistsSync(args.filePaths[i])

\* the run has not gone past main's validation other than by exiting with
\* status 1, and no document was read or analyzed
FailedAtomically ==
  /\ pc \in {"start", "exit1"}
  /\ reads = {}
  /\ visited = {}
  /\ allResults = EmptyResult

\* C13 (as stated): with no file path, a root that does not exist, an entry
\* point that does not exist or an entry point outside the root, the run ends
\* with status 1, emits nothing and analyzes no document, valid entry points
\* included.
C13_UsageFatal ==
  (BadArguments \/ (args.rootDir # NoRoot /\ SomeEntryOutside))
    => FailedAtomically

\* C13 (amended): the same, an entry point outside the root counting only
\* when link analysis is not disabled.
C13_UsageFatalLinks ==
  (BadArguments \/ (includeLinks /\ SomeEntryOutside)) => FailedAtomically

\* the run ended with status 1 although its first entry point is a valid
\* document inside the root: the second one does not exist or is outside
C13_Witness ==
  /\ pc = "exit1"
  /\ includeLinks
  /\ ExistsSync(args.rootDir)
  /\ Len(args.filePaths) = 2
  /\ ExistsSync(args.filePaths[1])
  /\ ~EntryOutside(1)
  /\ (~ExistsSync(args.filePaths[2]) \/ EntryOutside(2))

-----------------------------------------------------------------------------
(* C14 *)

\* the paths a result holds as not found or skipped
RecordedIn(result) ==
  Range(result.notFound)
    \cup Range(result.skipped.maxDepth)
    \cup Range(result.skipped.maxCount)
    \cup { o.resolvedPath : o \in Range(result.skipped.outsideRoot) }
    \cup { o.resolvedPath : o \in Range(result.skipped.symlinks) }

\* a candidate is at hand: the next entry point, or the next link of the
\* innermost call
HasCandidate ==
  /\ pc = "links"
  /\ \/ stack = <<>> /\ entryIdx <= Len(args.filePaths)
     \/ stack # <<>> /\ Top.todo # <<>>

\* the candidate at hand is a linked one that is over the count limit, or
\* a new one that is over the count limit, missing, outside the root or
\* against the symlink policy
CandidateExcluded ==
  /\ HasCandidate
  /\ \/ stack # <<>> /\ CountReached(visited, args.linkMaxCount)
     \/ /\ CallPath \notin visited
        /\ \/ CountReached(visited, args.linkMaxCount)
           \/ ~ExistsSync(CallPath)
           \/ RealPathOutside(CallPath)
           \/ IsSymlinked(CallPath)

\* the step records the candidate at hand in the result of its caller
RecordsCandidate ==
  /\ Len(stack') = Len(stack)
  /\ CallPath \in RecordedIn(IF stack = <<>> THEN allResults'
                              ELSE stack'[Len(stack)].result)

\* the step opens a document at the depth limit and records each of its
\* links to a file not yet visited
RecordsBeyondDepth ==
  (Len(stack') > Len(stack)
     /\ stack'[Len(stack')].currentDepth = args.linkMaxDepth) =>
    LET new == stack'[Len(stack')]
        links == extractInternalLinks(new.normalizedPath,
                                      (CHOOSE e \in fileContent' :
                                         e[1] = RealPath(new.normalizedPath))[2],
                                      args.rootDir, args.noSymlinks)
    IN  /\ Range(links.valid) \ visited' \subseteq RecordedIn(new.result)
        /\ Range(links.outsideRoot) \subseteq Range(new.result.skipped.outsideRoot)
        /\ Range(links.symlinks) \subseteq Range(new.result.skipped.symlinks)

\* C14: an excluded candidate never aborts the run: no step leads from the
\* traversal to exit status 1, the run has a next step whenever the candidate
\* at hand is to be excluded, that step records the candidate in the result
\* under construction and goes on with the traversal, and nothing follows the
\* one emission.
C14_ExclusionsNonFatal ==
  /\ [][pc = "links" => pc' \in {"links", "done"}]_vars
  /\ [](CandidateExcluded => ENABLED Next)
  /\ [][CandidateExcluded => (RecordsCandidate /\ pc' = "links")]_vars
  /\ [][RecordsBeyondDepth]_vars
  /\ [][pc # "done"]_vars

\* a finished run that recorded a missing file, a file outside the root and
\* a candidate under a limit or the symlink policy
C14_Witness ==
  /\ Emitted
  /\ allResults.notFound # <<>>
  /\ allResults.skipped.outsideRoot # <<>>
  /\ \/ allResults.skipped.maxDepth # <<>>
     \/ allResults.skipped.maxCount # <<>>
     \/ allResults.skipped.symlinks # <<>>

-----------------------------------------------------------------------------
(* C15 *)

\* a document was handed to fs.readFileSync and no analysis of it exists:
\* the read failed
ReadFailed ==
  \E p \in reads : \A i \in 1..Len(AnalyzedSoFar) : AnalyzedSoFar[i].fullPath # p

\* C15: with link analysis, once the read of an admitted document has failed
\* the run has ended with status 1, and nothing follows that exit: no result
\* is emitted, not for the documents analyzed before the failure either.
C15_ReadFailureFatal ==
  /\ []((includeLinks /\ ReadFailed) => pc = "exit1")
  /\ [][pc # "exit1"]_vars

\* the read of a document failed after another document had been analyzed
C15_Witness ==
  /\ pc = "exit1"
  /\ ReadFailed
  /\ AnalyzedSoFar # <<>>

-----------------------------------------------------------------------------
(* C16 *)

\* C16: without a root directory no link is followed, whatever the limits:
\* analyzeWithLinks is never entered, only files named on the command line
\* are read, a command line with existing files is not rejected, and at the
\* end the files read are exactly the files named.
C16_NoRootNoTraversal ==
  args.rootDir = NoRoot =>
    /\ pc # "links"
    /\ visited = {} /\ stack = <<>> /\ fileContent = {}
    /\ reads \subseteq Range(args.filePaths)
    /\ (~BadArguments => pc # "exit1")
    /\ (pc = "done" => reads = Range(args.filePaths))

\* a finished run without a root and without --no-include-links over two
\* named files
C16_Witness ==
  /\ pc = "done"
  /\ args.rootDir = NoRoot
  /\ ~args.noIncludeLinks
  /\ Cardinality(reads) = 2
  /\ reads = Range(args.filePaths)

-----------------------------------------------------------------------------
(* C17 *)

RECURSIVE OutsideRootInFrames(_)
OutsideRootInFrames(k) ==
  IF k = 0 THEN <<>>
  ELSE OutsideRootInFrames(k - 1) \o stack[k].result.skipped.outsideRoot

\* every outsideRoot record made so far, merged or still held by an active
\* call
OutsideRootSoFar ==
  allResults.skipped.outsideRoot \o OutsideRootInFrames(Len(stack))

\* how often the path p occurs in the sequence of paths seq
Occurrences(seq, p) == Cardinality({ i \in 1..Len(seq) : seq[i] = p })

\* C17: after every step there is one security warning for each record under
\* skipped.outsideRoot, for the same path (so the warning is written in the
\* step that makes the record), and the step that drops a duplicate writes
\* none.
C17_OutsideRootWarned ==
  /\ [](\A p \in Range(warned) \cup
                  { o.resolvedPath : o \in Range(OutsideRootSoFar) } :
          Occurrences(warned, p) =
            Occurrences(SecurityWarnings(OutsideRootSoFar), p))
  /\ [][(HasCall /\ CallPath \in visited) => warned' = warned]_vars

\* a finished run that rejected a link by its path and a file by its real
\* path, and dropped a duplicate
C17_Witness ==
  /\ Emitted
  /\ Len(warned) >= 2
  /\ \E o \in Range(allResults.skipped.outsideRoot) : o.url # o.resolvedPath
  /\ \E o \in Range(allResults.skipped.outsideRoot) : o.url = o.resolvedPath
  /\ \E q \in AnalyzedPaths(allResults) :
       \E p \in LinkedFrom(q) : AdmittedBefore(p, q)

-----------------------------------------------------------------------------
(* C18 *)

\* the path is, or leads through, a symbolic link
ThroughSymlink(p) == RealPath(p) # p

\* the candidate exists and its real path is inside the root
ExistsInsideRoot(p) ==
  ExistsSync(p) /\ Descendant(CanonicalRoot, RealPath(p))

\* C18: with --no-symlinks no document that is, or is reached through, a
\* symbolic link is read or analyzed, and every link of an analyzed document
\* to such a path that exists inside the root is recorded in
\* skipped.symlinks.
C18_SymlinkPolicy ==
  args.noSymlinks =>
    /\ \A p \in reads : ~ThroughSymlink(p)
    /\ \A i \in 1..Len(AnalyzedSoFar) : ~ThroughSymlink(AnalyzedSoFar[i].fullPath)
    /\ Emitted =>
         \A q \in AnalyzedPaths(allResults) :
           \A r \in LinkedFrom(q) :
             (ThroughSymlink(r) /\ ExistsInsideRoot(r)) =>
               r \in { o.resolvedPath : o \in Range(allResults.skipped.symlinks) }

-----------------------------------------------------------------------------
(* C19 *)

\* C19: for every line count n >= 1 the line-count score is 10 if n <= 200,
\* 7 if 200 < n <= 500, 4 if 500 < n <= 800 and 2 if n > 800, and the
\* feedback holds the matching length message, the "excellent" one exactly
\* when n <= 200.
C19_LineCountScore ==
  Evaluated =>
    LET n == metrics.totalLines
        lineCount == evaluation.scores.lineCount
        said(msg) == msg \in Range(evaluation.feedback)
    IN  /\ n <= 200 => lineCount = 10
        /\ (200 < n /\ n <= 500) =>
             lineCount = 7 /\ said("Document length is acceptable")
        /\ (500 < n /\ n <= 800) =>
             lineCount = 4 /\ said("Document is getting long")
        /\ n > 800 => lineCount = 2 /\ said("Document is too long")
        /\ said("Document length is excellent") <=> n <= 200

\* a document of exactly 200 lines has been scored
C19_Witness ==
  /\ Evaluated
  /\ metrics.totalLines = 200
  /\ evaluation.scores.lineCount = 10

-----------------------------------------------------------------------------
(* C20 *)

\* C20: for every DocumentMetrics the structure score is max(0, 10 - a - b - c)
\* where a = 3 if the maximum heading depth is above 4 (else 0), b = 3 if the
\* heading count is above 30, 1 if it is above 20 and at most 30 (else 0),
\* and c = 2 if the average section length is positive and below 15 (else 0).
C20_StructureScore ==
  Evaluated =>
    LET a == IF metrics.maxDepth > 4 THEN 3 ELSE 0
        b == IF metrics.sectionCount > 30 THEN 3
             ELSE IF 20 < metrics.sectionCount /\ metrics.sectionCount <= 30
               THEN 1
             ELSE 0
        c == IF 0 < metrics.avgSectionLength /\ metrics.avgSectionLength < 15
               THEN 2 ELSE 0
    IN  evaluation.scores.structure = Max(0, 10 - a - b - c)

\* a document with 21 to 30 headings, one of them deeper than 4, and short
\* sections has been scored: 10 - 3 - 1 - 2
C20_Witness ==
  /\ Evaluated
  /\ metrics.maxDepth > 4
  /\ metrics.sectionCount > 20
  /\ metrics.sectionCount <= 30
  /\ metrics.avgSectionLength > 0
  /\ metrics.avgSectionLength < 15
  /\ evaluation.scores.structure = 4

-----------------------------------------------------------------------------
(* C21 *)

\* C21: with L local references, T references in all and n lines, the
\* progressive-disclosure score before the anchor penalty is 10 if n <= 200;
\* for 200 < n <= 500 it is 10 if L >= 3 and L/T >= 0.5, 7 if L > 0
\* otherwise, 6 if L = 0; for n > 500 it is 10, 6, 3 on the same cases.  With
\* at least one anchor reference 2 is subtracted, not below 0, in every tier.
C21_DisclosureScore ==
  Evaluated =>
    LET n == metrics.totalLines
        L == metrics.internalLinks
        T == metrics.totalLinks
        threshold == L >= 3 /\ T > 0 /\ 2 * L >= T
        before == IF n <= 200 THEN 10
                  ELSE IF n <= 500
                    THEN (IF threshold THEN 10 ELSE IF L > 0 THEN 7 ELSE 6)
                  ELSE (IF threshold THEN 10 ELSE IF L > 0 THEN 6 ELSE 3)
        after == IF metrics.anchorLinks > 0
                   THEN (IF before - 2 < 0 THEN 0 ELSE before - 2)
                   ELSE before
    IN  evaluation.scores.progressiveDisclosure = after

\* a short document with an anchor reference has been scored: 10 - 2
C21_Witness ==
  /\ Evaluated
  /\ metrics.totalLines <= 200
  /\ metrics.anchorLinks > 0
  /\ evaluation.scores.progressiveDisclosure = 8

-----------------------------------------------------------------------------
(* C22 *)

\* a 600-line document with L local references out of 6 has been scored
ScenarioB(L) ==
  /\ Evaluated
  /\ metrics.totalLines = 600
  /\ metrics.internalLinks = L
  /\ metrics.totalLinks = 6

\* C22 (as stated): a 600-line document with 5 local links out of 6
\* references gets progressive-disclosure score 10, and with only 1 local
\* link out of 6 references it gets 3.
C22_ScenarioB ==
  /\ ScenarioB(5) => evaluation.scores.progressiveDisclosure = 10
  /\ ScenarioB(1) => evaluation.scores.progressiveDisclosure = 3

\* C22 (amended): a 600-line document with 5 local links out of 6 references,
\* none of them an anchor, gets progressive-disclosure score 10, and with
\* only 1 local link out of 6 it gets 6; an anchor among the references
\* lowers either score by 2.
C22_ScenarioBSomeLinks ==
  LET penalty == IF metrics.anchorLinks > 0 THEN 2 ELSE 0
  IN  /\ ScenarioB(5) => evaluation.scores.progressiveDisclosure = 10 - penalty
      /\ ScenarioB(1) => evaluation.scores.progressiveDisclosure = 6 - penalty

\* the 600-line document with 1 local and 5 external links has been scored
C22_Witness ==
  /\ ScenarioB(1)
  /\ metrics.externalLinks = 5
  /\ evaluation.scores.progressiveDisclosure = 6

-----------------------------------------------------------------------------
(* C23 *)

\* C23: for every combination of sub-scores the evaluator produces, overall
\* is the integer nearest to
\* (4 * lineCount + 3 * structure + 3 * progressiveDisclosure) / 10, an exact
\* half rounded up.
C23_OverallRoundsHalfUp ==
  Evaluated =>
    LET s == evaluation.scores
        tenths == 4 * s.lineCount + 3 * s.structure + 3 * s.progressiveDisclosure
    IN  s.overall = (tenths + 5) \div 10

-----------------------------------------------------------------------------
(* C24 *)

\* C24: for every well-formed DocumentMetrics the evaluator returns a result,
\* and each of lineCount, structure, progressiveDisclosure and overall is an
\* integer in 0..10.
C24_ScoresInRange ==
  /\ ~Evaluated => ENABLED Evaluate
  /\ Evaluated =>
       /\ evaluation = evaluateMetrics(metrics)
       /\ \A k \in {"lineCount", "structure", "progressiveDisclosure", "overall"} :
            evaluation.scores[k] \in 0..10

\* the worst document the evaluator knows has been scored: over 800 lines,
\* deep, fragmented, without local links, with an anchor
C24_Witness ==
  /\ Evaluated
  /\ evaluation.scores.lineCount = 2
  /\ evaluation.scores.structure = 2
  /\ evaluation.scores.progressiveDisclosure = 1
  /\ evaluation.scores.overall \in 0..10

-----------------------------------------------------------------------------
(* C25 *)

RECURSIVE SumOverall(_)
\* the sum of the overall scores of the entries of `analyzed`
SumOverall(analyzed) ==
  IF analyzed = <<>> THEN 0
  ELSE analyzed[1].overall + SumOverall(Tail(analyzed))

\* tenths / 10 is a multiple of 0.1 nearest to total / n
NearestTenth(tenths, total, n) ==
  LET d == tenths * n - 10 * total
  IN  2 * (IF d < 0 THEN 0 - d ELSE d) <= n

\* C25: in the final result summary.totalAnalyzed is the length of `analyzed`
\* and summary.averageScore is the mean of the overall scores of all entries
\* of `analyzed`, over all entry points, rounded to one decimal place.
C25_SummaryAverage ==
  Emitted =>
    LET analyzed == allResults.analyzed
    IN  /\ allResults.summary.totalAnalyzed = Len(analyzed)
        /\ analyzed # <<>> =>
             NearestTenth(allResults.summary.averageScore,
                          SumOverall(analyzed), Len(analyzed))

\* three documents from two entry points, their mean not a multiple of 0.1
C25_Witness ==
  /\ Emitted
  /\ Len(args.filePaths) = 2
  /\ Len(allResults.analyzed) = 3
  /\ (10 * SumOverall(allResults.analyzed)) % 3 # 0
  /\ allResults.summary.averageScore \in {57, 73}

-----------------------------------------------------------------------------
(* C26 *)

\* the least overall score among the entries of `analyzed`
MinOverall(analyzed) ==
  CHOOSE m \in { e.overall : e \in Range(analyzed) } :
    \A e \in Range(analyzed) : m <= e.overall

\* the first entry of `analyzed`, in discovery order, with the least score
FirstWorst(analyzed) ==
  analyzed[CHOOSE i \in 1..Len(analyzed) :
             /\ analyzed[i].overall = MinOverall(analyzed)
             /\ \A j \in 1..(i - 1) : analyzed[j].overall # MinOverall(analyzed)]

\* C26: whenever `analyzed` is non-empty, summary.worstScore is the minimum
\* overall score over all entries of `analyzed`, and summary.worstFile is the
\* path of the first entry, in discovery order, that attains it.
C26_WorstDocument ==
  (Emitted /\ allResults.analyzed # <<>>) =>
    /\ allResults.summary.worstScore = MinOverall(allResults.analyzed)
    /\ allResults.summary.worstFile = FirstWorst(allResults.analyzed).fullPath

-----------------------------------------------------------------------------
(* C27 *)

\* no value occurs twice in seq
NoRepeat(seq) == \A i, j \in 1..Len(seq) : i # j => seq[i] # seq[j]

\* what extractInternalLinks has produced for the document analyzed at p
ExtractedAt(p) ==
  extractInternalLinks(p, ContentOf(RealPath(p)), args.rootDir, args.noSymlinks)

\* C27: the references the Link Extractor produces for one document are
\* deduplicated by normalized target: a local target that the document
\* contains several times is produced at most once, in whichever list
\* (followable, outside-root, symlink) it ends.
C27_ExtractorDeduplicates ==
  \A p \in AnalyzedPaths([analyzed |-> AnalyzedSoFar]) :
    LET links == ExtractedAt(p)
        urls(list) == [i \in 1..Len(list) |-> list[i].url]
    IN  /\ NoRepeat(links.valid)
        /\ NoRepeat(urls(links.outsideRoot))
        /\ NoRepeat(urls(links.symlinks))

-----------------------------------------------------------------------------
(* C28 *)

\* the six outcome lists of a result, as sets of paths
Outcomes(result) ==
  << AnalyzedPaths(result),
     Range(result.notFound),
     Range(result.skipped.maxDepth),
     Range(result.skipped.maxCount),
     { o.resolvedPath : o \in Range(result.skipped.outsideRoot) },
     { o.resolvedPath : o \in Range(result.skipped.symlinks) } >>

\* C28: in the final result every candidate path discovered during the run
\* is in exactly one of analyzed, notFound, skipped.maxDepth,
\* skipped.maxCount, skipped.outsideRoot and skipped.symlinks, never in two.
C28_OneOutcome ==
  Emitted =>
    LET lists == Outcomes(allResults)
    IN  \A i, j \in 1..Len(lists) : i # j => lists[i] \cap lists[j] = {}

-----------------------------------------------------------------------------
(* C29 *)

\* the count limit is used up
BudgetSpent == Cardinality(visited) >= args.linkMaxCount

\* a candidate not yet visited is at hand with the count limit used up
CandidateOverBudget ==
  HasCandidate /\ BudgetSpent /\ CallPath \notin visited

\* the lists of a result other than skipped.maxCount
OtherLists(result) ==
  <<result.analyzed, result.notFound, result.skipped.maxDepth,
    result.skipped.outsideRoot, result.skipped.symlinks>>

\* the step records the candidate at hand under skipped.maxCount of its
\* caller's result and nowhere else, without a look at the file system
RecordsOnlyMaxCount ==
  LET before == IF stack = <<>> THEN allResults ELSE Top.result
      after == IF stack = <<>> THEN allResults' ELSE stack'[Len(stack)].result
  IN  /\ Len(stack') = Len(stack)
      /\ after.skipped.maxCount = Append(before.skipped.maxCount, CallPath)
      /\ OtherLists(after) = OtherLists(before)
      /\ visited' = visited
      /\ reads' = reads
      /\ warned' = warned

\* the step opens a document with which the count limit is used up, and
\* records none of its references to files not yet visited outside
\* skipped.maxCount
OpensWithinBudget ==
  (Len(stack') > Len(stack) /\ Cardinality(visited') >= args.linkMaxCount) =>
    LET new == stack'[Len(stack')].result
    IN  (Range(new.notFound)
           \cup Range(new.skipped.maxDepth)
           \cup { o.resolvedPath : o \in Range(new.skipped.outsideRoot) }
           \cup { o.resolvedPath : o \in Range(new.skipped.symlinks) })
          \subseteq visited'

\* C29 (as stated): the checks apply in the order duplicate, count,
\* existence, sandbox: once the size of visited has reached the maximum
\* count, every further candidate not already in visited is recorded under
\* skipped.maxCount and under no other list, whether or not it exists and
\* whether or not it lies inside the root.
C29_CountFirst ==
  /\ [][CandidateOverBudget => RecordsOnlyMaxCount]_vars
  /\ [][OpensWithinBudget]_vars

\* C29 (amended): once the size of visited has reached the maximum count,
\* every further candidate that reaches the traversal step (an entry point,
\* or a reference the Link Extractor returned as followable from a document
\* below the depth limit) and is not already in visited is recorded under
\* skipped.maxCount and under no other list, whether or not it exists and
\* whether or not its real path lies inside the root.
C29_CountFirstAmongFollowable ==
  /\ [](CandidateOverBudget => ENABLED (VisitMaxCount \/ LoopSkipMaxCount))
  /\ [][CandidateOverBudget => RecordsOnlyMaxCount]_vars

\* a finished run that left under skipped.maxCount a missing file and a link
\* whose real path is outside the root, neither of them under another list
C29_Witness ==
  /\ Emitted
  /\ args.linkMaxCount = 1
  /\ {<<"r", "m">>, <<"r", "s">>} \subseteq Range(allResults.skipped.maxCount)
  /\ allResults.notFound = <<>>
  /\ allResults.skipped.outsideRoot = <<>>

-----------------------------------------------------------------------------
(* C30 *)

\* the resolved paths of the local references in the text of the document
\* analyzed at p
LocalReferences(p) ==
  { ResolveLink(p, normalizeMarkdownLinkTarget(u)) :
      u \in { r \in Range(ContentOf(RealPath(p))) :
                normalizeMarkdownLinkTarget(r) # NullTarget } }

\* the active calls on documents at the depth limit
AtDepthLimit ==
  { k \in 1..Len(stack) : stack[k].currentDepth = args.linkMaxDepth }

\* no link of a document at the depth limit is followed: its call has no
\* link to go through, no call below it, and no analyzed record but its own
NothingFollowed(k) ==
  /\ k = Len(stack)
  /\ stack[k].todo = <<>>
  /\ Len(stack[k].result.analyzed) = 1

\* C30 (as stated): for a document analyzed at the maximum depth none of its
\* links is followed, and each of its local references is recorded in
\* skipped.maxDepth unless the referenced path is already in visited at that
\* moment.
C30_AtDepthLimit ==
  \A k \in AtDepthLimit :
    /\ NothingFollowed(k)
    /\ LocalReferences(stack[k].normalizedPath) \ visited
         \subseteq Range(stack[k].result.skipped.maxDepth)

\* C30 (amended): for a document analyzed at the maximum depth none of its
\* links is followed, and each of its local references that the Link
\* Extractor returns as followable (neither lexically outside the root nor,
\* under the symlink policy, a symbolic link) is recorded in
\* skipped.maxDepth unless the referenced path is already in visited at that
\* moment; the references the extractor rejects are recorded in
\* skipped.outsideRoot and skipped.symlinks.
C30_AtDepthLimitFollowable ==
  \A k \in AtDepthLimit :
    LET links == ExtractedAt(stack[k].normalizedPath)
        result == stack[k].result
    IN  /\ NothingFollowed(k)
        /\ result.skipped.maxDepth = SelectNot(links.valid, visited)
        /\ result.skipped.outsideRoot = links.outsideRoot
        /\ result.skipped.symlinks = links.symlinks
        /\ result.notFound = <<>>
        /\ result.skipped.maxCount = <<>>

\* a document at the depth limit with two followable links, one of them to a
\* document already visited
C30_Witness ==
  /\ stack # <<>>
  /\ Top.currentDepth = args.linkMaxDepth
  /\ Len(ExtractedAt(Top.normalizedPath).valid) = 2
  /\ Len(Top.result.skipped.maxDepth) = 1

-----------------------------------------------------------------------------
(* C31 *)

\* C31: every entry point the caller supplied that appears in `analyzed` is
\* recorded with depth 0, for any number of entry points and any links
\* between them.
C31_EntryPointsAtDepthZero ==
  Emitted =>
    \A e \in Range(allResults.analyzed) :
      e.fullPath \in Range(args.filePaths) => e.depth = 0

-----------------------------------------------------------------------------
(* C32 *)

\* the place of the first x in seq
IndexOf(seq, x) ==
  CHOOSE i \in 1..Len(seq) : seq[i] = x /\ \A j \in 1..(i - 1) : seq[j] # x

\* the places before i in `analyzed` of the records one level up with no
\* record of a lesser depth than analyzed[i] in between: the document
\* through which analyzed[i] was discovered, if there is one
ParentsOf(analyzed, i) ==
  { j \in 1..(i - 1) :
      /\ analyzed[j].depth = analyzed[i].depth - 1
      /\ \A k \in (j + 1)..(i - 1) : analyzed[k].depth >= analyzed[i].depth }

\* C32: the `analyzed` list is in depth-first pre-order: entry points in the
\* order supplied, each document immediately before the documents first
\* discovered through its links, links taken in the order of the text; the
\* depth of a record is the depth of that first discovery, and a second run
\* on the same inputs gives the same list.
C32_DiscoveryOrder ==
  Emitted =>
    LET analyzed == allResults.analyzed
        n == Len(analyzed)
        parent(i) == CHOOSE j \in ParentsOf(analyzed, i) : TRUE
        linksOf(j) == ExtractedAt(analyzed[j].fullPath).valid
    IN  /\ \A i \in 1..n : analyzed[i].depth = 0 =>
             analyzed[i].fullPath \in Range(args.filePaths)
        /\ \A i, j \in 1..n :
             (i < j /\ analyzed[i].depth = 0 /\ analyzed[j].depth = 0) =>
               IndexOf(args.filePaths, analyzed[i].fullPath)
                 < IndexOf(args.filePaths, analyzed[j].fullPath)
        /\ \A i \in 1..n : analyzed[i].depth > 0 =>
             /\ ParentsOf(analyzed, i) # {}
             /\ analyzed[i].fullPath \in Range(linksOf(parent(i)))
        /\ \A i, j \in 1..n :
             (/\ i < j
              /\ analyzed[i].depth > 0
              /\ analyzed[i].depth = analyzed[j].depth
              /\ ParentsOf(analyzed, i) = ParentsOf(analyzed, j)) =>
               IndexOf(linksOf(parent(i)), analyzed[i].fullPath)
                 < IndexOf(linksOf(parent(i)), analyzed[j].fullPath)
        /\ analyzed = RunIn(SameOrder).result.analyzed

\* a finished run over two entry points: the first with a linked document
\* that has a linked document of its own, then the second
C32_Witness ==
  /\ Emitted
  /\ Len(allResults.analyzed) = 3
  /\ allResults.analyzed[1].depth = 0
  /\ allResults.analyzed[2].depth = 1
  /\ allResults.analyzed[3].depth \in {0, 1, 2}
  /\ \E c \in fileContent : Len(c[2]) >= 2

-----------------------------------------------------------------------------
(* C33 *)

RECURSIVE NotFoundInFrames(_)
NotFoundInFrames(k) ==
  IF k = 0 THEN <<>>
  ELSE NotFoundInFrames(k - 1) \o stack[k].result.notFound

\* every notFound record made so far, merged or still held by an active call
NotFoundSoFar == allResults.notFound \o NotFoundInFrames(Len(stack))

\* the link at hand leads to a missing file not yet visited, with the count
\* limit not reached (its document is below the depth limit and the link
\* resolves lexically inside the root, or it would not be gone through)
MissingCandidate ==
  /\ HasCall
  /\ stack # <<>>
  /\ CallPath \notin visited
  /\ ~ExistsSync(CallPath)

\* the step records the link at hand under notFound of the calling document
\* and nowhere else, and opens no file
RecordsNotFound ==
  LET before == Top.result
      after == stack'[Len(stack)].result
  IN  /\ Len(stack') = Len(stack)
      /\ after.notFound = Append(before.notFound, CallPath)
      /\ after.analyzed = before.analyzed
      /\ after.skipped = before.skipped
      /\ visited' = visited
      /\ reads' = reads

\* C33: a linked candidate that is not yet visited, is reached within the
\* count and depth limits, resolves lexically inside the root and does not
\* exist is recorded in notFound, is never analyzed, and is in the final
\* notFound list exactly once however many documents or entry points link to
\* it.
C33_NotFound ==
  /\ [](MissingCandidate => ENABLED VisitNotFound)
  /\ [][MissingCandidate => RecordsNotFound]_vars
  /\ [](\A p \in Range(NotFoundSoFar) :
          /\ ~ExistsSync(p)
          /\ p \notin visited
          /\ p \notin reads
          /\ p \notin AnalyzedPaths([analyzed |-> AnalyzedSoFar]))
  /\ [][Range(NotFoundSoFar) \subseteq Range(NotFoundSoFar')]_vars
  /\ [](Emitted => NoRepeat(allResults.notFound))

\* a finished run in which two documents link to the same missing file
C33_Witness ==
  /\ Emitted
  /\ allResults.notFound = << <<"r", "m">> >>
  /\ Cardinality({ c \in fileContent :
                     [kind |-> "local", target |-> <<"m">>] \in Range(c[2]) }) = 2
  /\ args.linkMaxDepth = 2
  /\ Len(allResults.analyzed) = 2
  /\ allResults.skipped.maxCount = <<>>

-----------------------------------------------------------------------------
(* C34: the metrics count each match as the Link Extractor classifies it *)

\* the Link Extractor's classes of a raw target
AnchorOnly(rawUrl) == StartsWith(Trimmed(rawUrl), <<"#">>)
Local(rawUrl) == NormalizeRawTarget(rawUrl) # NullTarget
External(rawUrl) == ~AnchorOnly(rawUrl) /\ ~Local(rawUrl)

\* the matches of the document counted that are anchor-only, local, external
AnchorMatches == { i \in DOMAIN matches : AnchorOnly(matches[i]) }
LocalMatches == { i \in DOMAIN matches : Local(matches[i]) }
ExternalMatches == { i \in DOMAIN matches : External(matches[i]) }

\* C34: once the links of a document are counted, anchorLinks is the number
\* of its matches whose target, trimmed of whitespace and angle brackets,
\* begins with "#", internalLinks the number of those with a non-null
\* normalized target, and externalLinks the number of the others.
C34_MetricsClassification ==
  Counted =>
    /\ metrics.anchorLinks = Cardinality(AnchorMatches)
    /\ metrics.internalLinks = Cardinality(LocalMatches)
    /\ metrics.externalLinks = Cardinality(ExternalMatches)

-----------------------------------------------------------------------------
(* C39: the link counts partition the matches *)

\* the three classes of the link counts
LinkClasses == {"internalLinks", "externalLinks", "anchorLinks"}

\* the classes one match is counted in
CountedIn(url) == { c \in LinkClasses : CountMatch(NoLinks, url)[c] > 0 }

\* C39: once the links of a document are counted, totalLinks is the number
\* of its matches and the sum of internalLinks, externalLinks and
\* anchorLinks, and every match has added one to exactly one of the three.
C39_CountsPartition ==
  Counted =>
    /\ metrics.totalLinks = Len(matches)
    /\ metrics.totalLinks =
         metrics.internalLinks + metrics.externalLinks + metrics.anchorLinks
    /\ \A i \in DOMAIN matches :
         /\ Cardinality(CountedIn(matches[i])) = 1
         /\ \A c \in CountedIn(matches[i]) :
              CountMatch(NoLinks, matches[i])[c] = 1

\* a document with an anchor and a local link has been counted
C39_Witness ==
  /\ Counted
  /\ Len(matches) = 2
  /\ metrics.anchorLinks = 1
  /\ metrics.internalLinks = 1

-----------------------------------------------------------------------------
(* C35: what skipped.circular reports *)

\* the documents being expanded below frame i: the current chain
ChainBelow(i) == { stack[j].normalizedPath : j \in 1..(i - 1) }

\* frame i is a call that has just reported its path as circular
ReportedCircular(i) ==
  /\ stack[i].at = "return"
  /\ stack[i].result.analyzed = <<>>
  /\ stack[i].result.skipped.circular # <<>>

\* C35: a path is reported in skipped.circular only by a link that leads
\* back to a document on the chain of documents being expanded; a document
\* reached a second time off that chain (a diamond) is not reported.
C35_CircularIsCycle ==
  pc = "script-links" =>
    \A i \in DOMAIN stack :
      ReportedCircular(i) => stack[i].normalizedPath \in ChainBelow(i)

-----------------------------------------------------------------------------
(* C36: visited and analyzed agree *)

\* C36: at every point of a run the traversal has reached by normal
\* returns, visited is the set of the fullPath values of the records
\* analyzed so far, one record for each path, and no step removes a path
\* from visited.
C36_VisitedIsAnalyzed ==
  /\ [](/\ visited = AnalyzedPaths([analyzed |-> AnalyzedSoFar])
        /\ Cardinality(visited) = Len(AnalyzedSoFar))
  /\ [][visited \subseteq visited']_vars

\* a finished run that analyzed two documents or more, one of them under a
\* path that is not its real path
C36_Witness ==
  /\ Emitted
  /\ Cardinality(visited) >= 2
  /\ \E p \in visited : RealPath(p) # p

-----------------------------------------------------------------------------
(* C37: a file is read only after it was admitted *)

\* the path passes the duplicate, the count, the existence and the
\* real-path check of analyzeWithLinks in this state
Admitted(p) ==
  /\ p \notin visited
  /\ Cardinality(visited) < args.linkMaxCount
  /\ ExistsSync(p)
  /\ isRealPathWithinRoot(RealPath(p), CanonicalRoot)

\* a step reads only paths the state before it admits
ReadsAdmitted == \A p \in reads' \ reads : Admitted(p)

\* the paths of notFound and of the skipped lists of a result
ListedIn(result) ==
  Range(result.notFound)
    \cup Range(result.skipped.maxDepth)
    \cup Range(result.skipped.maxCount)
    \cup { o.resolvedPath : o \in Range(result.skipped.outsideRoot) }
    \cup { o.resolvedPath : o \in Range(result.skipped.symlinks) }

\* C37: in a run with link analysis a file is read only in a step whose
\* state before admits it (not visited, budget left, existing, real path
\* inside the root), and no path of the emitted notFound or skipped lists
\* has been read.
C37_ReadAfterAdmission ==
  /\ [][includeLinks => ReadsAdmitted]_vars
  /\ [](Emitted => ListedIn(allResults) \cap reads = {})

-----------------------------------------------------------------------------
(* C38: completeness within the depth limit *)

\* an existing file whose real path is inside the root and which the
\* symlink policy allows
Admissible(p) ==
  /\ RealPath(p) \in Files
  /\ ~RealPathOutside(p)
  /\ ~IsSymlinked(p)

\* the admissible documents the followable links of p lead to; the text of a
\* file never read is not known
AdmissibleLinks(p) ==
  IF HasContent(RealPath(p))
    THEN { q \in Range(ExtractedAt(p).valid) : Admissible(q) }
    ELSE {}

RECURSIVE WithinDistance(_)
\* the admissible documents at most k links away from some entry point
WithinDistance(k) ==
  IF k = 0 THEN { e \in Range(args.filePaths) : Admissible(e) }
  ELSE LET near == WithinDistance(k - 1)
       IN  near \cup UNION { AdmissibleLinks(p) : p \in near }

\* C38: in an emitted result of a run that never used up the count budget,
\* every existing document inside the root at most the maximum depth of
\* links away from some entry point is in analyzed and not in
\* skipped.maxDepth.
C38_CompleteWithinDepth ==
  (Emitted /\ ~BudgetSpent) =>
    /\ WithinDistance(args.linkMaxDepth) \subseteq AnalyzedPaths(allResults)
    /\ WithinDistance(args.linkMaxDepth)
         \cap Range(allResults.skipped.maxDepth) = {}

====
